---- MODULE Spec2Model ----
(***************************************************************************)
(* VkPlayground: the shader compilation cache of VulkanShader              *)
(* (src/src/vulkan_shader.cpp, declarations in src/unnamed/part_002) and   *)
(* the helpers of src/unnamed/part_000, and the configuration hash of      *)
(* VulkanPipelineBuilder (src/unnamed/part_001).                           *)
(*                                                                         *)
(* The Slang compiler backend is external.  A module source is a symbol    *)
(* whose entry points are given by EntryPointsOf; the SPIR-V of an entry   *)
(* point is a one-word sequence whose word names everything the backend    *)
(* derived it from (source, entry point, optimisation level, macros), so   *)
(* stale or foreign code is told apart from the right code.  std::hash is  *)
(* taken collision-free: a hash value is the sequence of the elements      *)
(* combined into it, and the value 0 is the empty sequence.                *)
(***************************************************************************)
EXTENDS Integers, Sequences, FiniteSets, TLC

VARIABLES sh, s_SlangSessions, fs, disk, lastOp, opCount, dead, pb, pbOp, pbCount, heap, thr,
          shaderHash, shaderHashOp, saves

vars == <<sh, s_SlangSessions, fs, disk, lastOp, opCount, dead, pb, pbOp, pbCount, heap, thr,
          shaderHash, shaderHashOp, saves>>

(***************************************************************************)
(* Bounds of the model.                                                    *)
(***************************************************************************)
MaxSteps == 2

MaxSetterCalls == 2

\* The most strings one ShaderHash is given.
MaxContents == 3

(***************************************************************************)
(* Program constants.                                                      *)
(***************************************************************************)
CACHE_VERSION == 1

CACHE_MAGIC == 1397770582

SPIRV_PROFILE == "spirv_1_5"

VK_SHADER_STAGE_VERTEX_BIT == 1

VK_SHADER_STAGE_GEOMETRY_BIT == 8

VK_SHADER_STAGE_FRAGMENT_BIT == 16

WordBytes == 4

NOT_READY == "NOT_READY"

CACHED == "CACHED"

FAILED == "FAILED"

COMPILED == "COMPILED"

SourceType_FILE == "FILE"

SourceType_STRING == "STRING"

(***************************************************************************)
(* Input sets.                                                             *)
(***************************************************************************)
Shaders == {"A", "B"}

SourceFile == "shaders/a.slang"

CacheFile == "cache/s.bin"

NoSource == "<absent>"

MacroD1 == <<[name |-> "DEBUG", value |-> "1"]>>

MacroD2 == <<[name |-> "DEBUG", value |-> "2"]>>

(***************************************************************************)
(* shader_helper: stage conversions.                                       *)
(***************************************************************************)
getSlangStageFromVkStage(p_Stage) ==
    CASE p_Stage = VK_SHADER_STAGE_VERTEX_BIT -> "SLANG_STAGE_VERTEX"
      [] p_Stage = VK_SHADER_STAGE_FRAGMENT_BIT -> "SLANG_STAGE_FRAGMENT"
      [] p_Stage = VK_SHADER_STAGE_GEOMETRY_BIT -> "SLANG_STAGE_GEOMETRY"
      [] OTHER -> "throw"

getVkStageFromSlangStage(p_Stage) ==
    CASE p_Stage = "SLANG_STAGE_VERTEX" -> VK_SHADER_STAGE_VERTEX_BIT
      [] p_Stage = "SLANG_STAGE_FRAGMENT" -> VK_SHADER_STAGE_FRAGMENT_BIT
      [] p_Stage = "SLANG_STAGE_GEOMETRY" -> VK_SHADER_STAGE_GEOMETRY_BIT
      [] OTHER -> 0

(***************************************************************************)
(* hashCombine and ShaderHash.                                             *)
(***************************************************************************)
ZeroHash == <<>>

hashCombine(p_Seed, p_Element) == Append(p_Seed, p_Element)

SizeT(b) == IF b THEN "size_t:1" ELSE "size_t:0"

NewShaderHash == [m_Data |-> <<>>, m_HashValue |-> ZeroHash]

addString(h, p_Content) == [h EXCEPT !.m_Data = Append(@, p_Content)]

addMacro(h, p_Name, p_Value) == [h EXCEPT !.m_Data = Append(@, p_Name \o "=" \o p_Value)]

RECURSIVE CombineAll(_, _)
CombineAll(seed, data) ==
    IF data = <<>> THEN seed
    ELSE CombineAll(hashCombine(seed, Head(data)), Tail(data))

\* ShaderHash::getHash: the hash object after the call; its m_HashValue is the result.
getHash(h) ==
    IF h.m_HashValue = ZeroHash
    THEN [h EXCEPT !.m_HashValue = CombineAll(ZeroHash, h.m_Data)]
    ELSE h

\* The key compile() and saveCodeCache() derive from the content hash.
ContentKey(hashValue, optimize) ==
    hashCombine(hashCombine(hashValue, SizeT(optimize)), SPIRV_PROFILE)

(***************************************************************************)
(* The compiler backend.                                                   *)
(***************************************************************************)
EntryPointsOf(source) ==
    CASE source = "vs" -> <<[stage |-> "SLANG_STAGE_VERTEX", name |-> "vsMain"]>>
      [] source = "fs2" -> <<[stage |-> "SLANG_STAGE_FRAGMENT", name |-> "fsA"],
                             [stage |-> "SLANG_STAGE_FRAGMENT", name |-> "fsB"]>>
      [] OTHER -> <<>>

Compiles(source) == source \in {"vs", "fs2"}

NullHandle == [null |-> TRUE]

IsNull(h) == h = NullHandle

\* The binary the backend emits for an entry point of a program.
CodeOf(ep) == <<[src |-> ep.src, ep |-> ep.name, opt |-> ep.opt, macros |-> ep.macros]>>

ZeroWord == [src |-> "", ep |-> "", opt |-> FALSE, macros |-> <<>>]

(***************************************************************************)
(* The cache file: a sequence of items, in the order they are written.     *)
(*   <<header, count, stage, nameLen, name, codeSize, code, ...>>          *)
(* A read past the end fails and leaves the destination as initialised.    *)
(***************************************************************************)
SlangBuildTag == "slang-build-tag"

CacheHeader(contentHash) ==
    [magic |-> CACHE_MAGIC, version |-> CACHE_VERSION, slangVersion |-> SlangBuildTag,
     spirvProfile |-> SPIRV_PROFILE, contentHash |-> contentHash]

\* CacheHeader l_Header; before anything is read into it.
DefaultHeader ==
    [magic |-> CACHE_MAGIC, version |-> CACHE_VERSION, slangVersion |-> "",
     spirvProfile |-> "", contentHash |-> ZeroHash]

NoFile == [exists |-> FALSE, data |-> <<>>]

FileOf(data) == [exists |-> TRUE, data |-> data]

TempFileOf(path) == path \o ".tmp"

FsPaths == {CacheFile, TempFileOf(CacheFile)}

RECURSIVE ZeroString(_)
ZeroString(n) == IF n <= 0 THEN "" ELSE "@" \o ZeroString(n - 1)

ReadItem(data, k, initial) == IF k <= Len(data) THEN data[k] ELSE initial

\* Mutation of WriteRecord: the code size is written in words, not in bytes.
WriteRecord_SizeInWords(c) ==
    <<c.stage, Len(c.name), c.name, Len(c.spirv), c.spirv>>

\* One record as the loop body of saveCodeCache writes it.
WriteRecord(c) ==
    <<c.stage, Len(c.name), c.name, Len(c.spirv) * WordBytes, c.spirv>>

RECURSIVE WriteRecords(_)
WriteRecords(codes) ==
    IF codes = <<>> THEN <<>>
    ELSE WriteRecord(Head(codes)) \o WriteRecords(Tail(codes))

\* Everything saveCodeCache writes to the temporary file.
WriteCache(contentHash, codes) ==
    <<CacheHeader(contentHash), Len(codes)>> \o WriteRecords(codes)

\* One record as the loop body of tryLoadCachedCode reads it, from item k on.
ReadRecord(data, k) ==
    LET l_Stage == ReadItem(data, k, 0)
        l_NameLength == ReadItem(data, k + 1, 0)
        l_Name == ReadItem(data, k + 2, ZeroString(l_NameLength))
        l_CodeSize == ReadItem(data, k + 3, 0)
        l_Code == ReadItem(data, k + 4, <<>>)
    IN [stage |-> l_Stage, name |-> l_Name,
        spirv |-> [i \in 1..(l_CodeSize \div WordBytes) |->
                      IF i <= Len(l_Code) THEN l_Code[i] ELSE ZeroWord]]

RECURSIVE ReadRecords(_, _, _)
ReadRecords(data, k, n) ==
    IF n <= 0 THEN <<>>
    ELSE <<ReadRecord(data, k)>> \o ReadRecords(data, k + 5, n - 1)

(***************************************************************************)
(* VulkanShader.                                                           *)
(***************************************************************************)
NewShader(p_CompilationThread, p_Optimize, p_Macros) ==
    [m_Modules |-> <<>>, m_CachedCodes |-> <<>>, m_ExpectedStages |-> {},
     m_ExpectedEntryPoints |-> <<>>, m_Hash |-> NewShaderHash, m_UseCache |-> FALSE,
     m_HashFile |-> "", m_Macros |-> p_Macros, m_SearchPaths |-> {},
     m_Result |-> [status |-> NOT_READY, error |-> ""],
     m_SlangSession |-> NullHandle, m_SlangComponents |-> <<>>,
     m_SlangProgram |-> NullHandle, m_Optimize |-> p_Optimize,
     m_CompilationThread |-> p_CompilationThread]

ParentPath(p) == IF p = SourceFile THEN "shaders" ELSE ""

\* What a handler did, in order: its calls to the backend (onNull: through a null
\* handle), the failures it recorded (fn "fail:<kind>", arg the message) and the
\* death of the process (fn "died", arg the function it died in).
Event(fn, arg, onNull) == [fn |-> fn, arg |-> arg, onNull |-> onNull]

Logged(w, fn, arg, onNull) == [w EXCEPT !.calls = Append(@, Event(fn, arg, onNull))]

\* m_Result.error = msg; m_Result.status = Result::FAILED;
Fail(w, kind, msg) ==
    [Logged(w, "fail:" \o kind, msg, FALSE) EXCEPT
        !.o.m_Result = [status |-> FAILED, error |-> msg]]

Die(w, where) == [Logged(w, "died", where, FALSE) EXCEPT !.dead = TRUE]

CountCalls(w, fn) == Cardinality({i \in 1..Len(w.calls) : w.calls[i].fn = fn})

\* The first index of seq whose element satisfies Test, 0 when there is none.
\* The reference-counted objects the backend handed out: made counts them, live holds
\* the ones not yet released.  A handle is named by its serial number.
EmptyHeap == [made |-> 0, live |-> {}]

Obtain(w) ==
    [w EXCEPT !.heap = [made |-> @.made + 1, live |-> @.live \cup {@.made + 1}]]

\* h->release(): onNull tells a release of a handle that is no longer live.
Release(w, h) ==
    [Logged(w, "release", ToString(h.id), h.id \notin w.heap.live)
        EXCEPT !.heap.live = @ \ {h.id}]

FirstIndex(seq, Test(_)) ==
    IF \E i \in 1..Len(seq) : Test(seq[i])
    THEN CHOOSE i \in 1..Len(seq) : Test(seq[i]) /\ \A j \in 1..(i - 1) : ~Test(seq[j])
    ELSE 0

\* s_SlangSessions: the map from worker identity to its compiler context.  A context
\* is named by the identity it was created for and by how many were created for that
\* identity before it.
NoSessions == <<>>

GlobalSession(t, n) == [null |-> FALSE, worker |-> t, n |-> n]

\* s_SlangSessions[k] = v
Inserted(map, k, v) == [x \in DOMAIN map \cup {k} |-> IF x = k THEN v ELSE map[x]]

\* One thread at a time: an entry is never removed, so the context created for t is the
\* first one.
buildSession(w, bk) ==
    LET t == w.o.m_CompilationThread
    IN IF t \notin DOMAIN w.sessions /\ bk.fault = "ctx"
       THEN Fail(w, "session", "Failed to create Slang global session")
       ELSE LET w1 == Logged([w EXCEPT !.sessions =
                                 IF t \in DOMAIN @ THEN @
                                 ELSE Inserted(@, t, GlobalSession(t, 1))],
                             "createSession", "", FALSE)
            IN IF bk.fault = "sess"
               THEN Fail(w1, "session", "Failed to create Slang session")
               ELSE [Obtain(w1) EXCEPT !.o.m_SlangSession =
                        [null |-> FALSE, id |-> w1.heap.made + 1, thread |-> t,
                         opt |-> w.o.m_Optimize, macros |-> w.o.m_Macros,
                         paths |-> w.o.m_SearchPaths]]

ModuleComponent(source, name, sess) ==
    [kind |-> "module", stage |-> "", name |-> name, src |-> source,
     opt |-> sess.opt, macros |-> sess.macros]

EntryPointComponents(source, sess) ==
    LET eps == EntryPointsOf(source)
    IN [i \in 1..Len(eps) |->
           [kind |-> "ep", stage |-> eps[i].stage, name |-> eps[i].name, src |-> source,
            opt |-> sess.opt, macros |-> sess.macros]]

loadModuleString(w, p_Source, p_ModuleName, bk) ==
    IF w.dead THEN w
    ELSE LET onNull == IsNull(w.o.m_SlangSession)
             w1 == Logged(w, "loadModuleFromSourceString", p_ModuleName, onNull)
         IN IF onNull /\ bk.ub = "crash" THEN Die(w1, "loadModuleString")
            ELSE IF onNull \/ ~Compiles(p_Source)
            THEN Fail(w1, "load", "Failed to load shader module: " \o p_ModuleName)
            ELSE LET sess == w.o.m_SlangSession
                     w2 == [w1 EXCEPT !.o.m_SlangComponents =
                                         Append(@, ModuleComponent(p_Source, p_ModuleName, sess))]
                 IN IF bk.fault = "ep" /\ EntryPointsOf(p_Source) # <<>>
                    THEN Fail(w2, "entry", "Failed to get entry point by index: 0")
                    ELSE [w2 EXCEPT !.o.m_SlangComponents =
                                       @ \o EntryPointComponents(p_Source, sess)]

loadModule(w, p_Filename, p_ModuleName, bk) ==
    IF w.dead \/ w.o.m_Result.status = FAILED THEN w
    ELSE IF w.disk[p_Filename] = NoSource
    THEN Fail(w, "open", "Failed to open shader file: " \o p_Filename)
    ELSE LET l_ParentPath == ParentPath(p_Filename)
             w1 == IF l_ParentPath # ""
                   THEN [w EXCEPT !.o.m_SearchPaths = @ \cup {l_ParentPath}]
                   ELSE w
         IN loadModuleString(w1, w.disk[p_Filename], p_ModuleName, bk)

\* The loop of compile() over m_Modules, from module i on.
RECURSIVE LoadModules(_, _, _)
LoadModules(w, i, bk) ==
    IF i > Len(w.o.m_Modules) THEN w
    ELSE LET l_Module == w.o.m_Modules[i]
         IN LoadModules(IF l_Module.type = SourceType_FILE
                        THEN loadModule(w, l_Module.data, l_Module.name, bk)
                        ELSE loadModuleString(w, l_Module.data, l_Module.name, bk),
                        i + 1, bk)

IsEntryPoint(c) == c.kind = "ep"

linkAndFinalize(w, bk) ==
    IF w.dead \/ w.o.m_Result.status = FAILED THEN w
    ELSE LET onNull == IsNull(w.o.m_SlangSession)
             w1 == Logged(w, "createCompositeComponentType", "", onNull)
         IN IF onNull /\ bk.ub = "crash" THEN Die(w1, "linkAndFinalize")
            ELSE LET w2 == IF onNull \/ bk.fault = "link"
                           THEN Fail(w1, "link", "Failed to link shader modules")
                           ELSE [Obtain(w1) EXCEPT !.o.m_SlangProgram =
                                    [null |-> FALSE, id |-> w1.heap.made + 1,
                                     eps |-> SelectSeq(w.o.m_SlangComponents, IsEntryPoint)]]
                 IN [w2 EXCEPT !.o.m_SlangComponents = <<>>,
                               !.o.m_Result.status = COMPILED]


Expected(codes, stages, names) ==
    /\ \A l_StageBit \in stages : \E i \in 1..Len(codes) : codes[i].stage = l_StageBit
    /\ \A k \in 1..Len(names) : \E i \in 1..Len(codes) : codes[i].name = names[k]

\* Mutation of tryLoadCachedCode: the content hash of the header is not compared.
tryLoadCachedCode_NoHashCheck(w, p_HashValue) ==
    LET l_File == w.fs[w.o.m_HashFile]
        l_Header == ReadItem(l_File.data, 1, DefaultHeader)
        l_StageCount == ReadItem(l_File.data, 2, 0)
        Miss(why) == [Logged(w, "log:" \o why, w.o.m_HashFile, FALSE) EXCEPT !.hit = FALSE]
    IN IF ~l_File.exists THEN [w EXCEPT !.hit = FALSE]
       ELSE IF l_Header.magic # CACHE_MAGIC THEN Miss("magic")
       ELSE IF l_Header.version # CACHE_VERSION THEN Miss("version")
       ELSE IF l_Header.spirvProfile # SPIRV_PROFILE THEN Miss("profile")
       ELSE LET codes == w.o.m_CachedCodes \o ReadRecords(l_File.data, 3, l_StageCount)
            IN [w EXCEPT !.o.m_CachedCodes = codes,
                         !.hit = Expected(codes, w.o.m_ExpectedStages,
                                          w.o.m_ExpectedEntryPoints)]

\* The result is in .hit; the records read are appended to m_CachedCodes; a rejected
\* header is logged (LOG_INFO) with its reason.
tryLoadCachedCode(w, p_HashValue) ==
    LET l_File == w.fs[w.o.m_HashFile]
        l_Header == ReadItem(l_File.data, 1, DefaultHeader)
        l_StageCount == ReadItem(l_File.data, 2, 0)
        Miss(why) == [Logged(w, "log:" \o why, w.o.m_HashFile, FALSE) EXCEPT !.hit = FALSE]
    IN IF ~l_File.exists THEN [w EXCEPT !.hit = FALSE]
       ELSE IF l_Header.magic # CACHE_MAGIC THEN Miss("magic")
       ELSE IF l_Header.version # CACHE_VERSION THEN Miss("version")
       ELSE IF l_Header.spirvProfile # SPIRV_PROFILE THEN Miss("profile")
       ELSE IF l_Header.contentHash # p_HashValue THEN Miss("hash")
       ELSE LET codes == w.o.m_CachedCodes \o ReadRecords(l_File.data, 3, l_StageCount)
            IN [w EXCEPT !.o.m_CachedCodes = codes,
                         !.hit = Expected(codes, w.o.m_ExpectedStages,
                                          w.o.m_ExpectedEntryPoints)]

\* m_SlangProgram->getEntryPointCode(index, ...) and the copy of its blob into the result.
EntryPointCode(w, l_EntryPointIndex, what, bk) ==
    LET eps == w.o.m_SlangProgram.eps
        w1 == Logged(w, "getEntryPointCode", "", FALSE)
        n == CountCalls(w1, "getEntryPointCode")
        failed == \/ l_EntryPointIndex > Len(eps)
                  \/ bk.fault = "code1" /\ n = 1
                  \/ bk.fault = "code2" /\ n = 2
    IN IF failed
       THEN [Fail(w1, "code", "Failed to get SPIR-V for shader " \o what) EXCEPT !.ret = <<>>]
       ELSE [w1 EXCEPT !.ret = CodeOf(eps[l_EntryPointIndex])]

\* getSpirvForStage from "uint32_t l_EntryPointIndex = UINT32_MAX" on.
ExtractForStage(w, p_Stage, bk) ==
    IF w.dead THEN w
    ELSE IF IsNull(w.o.m_SlangProgram)
    THEN LET w1 == Logged(w, "getLayout", "", TRUE)
         IN IF bk.ub = "crash" THEN [Die(w1, "getSpirvForStage") EXCEPT !.ret = <<>>]
            ELSE [Fail(w1, "notfound",
                       "Failed to find entry point for shader stage: " \o ToString(p_Stage))
                     EXCEPT !.ret = <<>>]
    ELSE LET l_SlangStage == getSlangStageFromVkStage(p_Stage)
             HasStage(ep) == ep.stage = l_SlangStage
             l_EntryPointIndex == FirstIndex(w.o.m_SlangProgram.eps, HasStage)
             w1 == Logged(w, "getLayout", "", FALSE)
         IN IF l_EntryPointIndex = 0
            THEN [Fail(w1, "notfound",
                       "Failed to find entry point for shader stage: " \o ToString(p_Stage))
                     EXCEPT !.ret = <<>>]
            ELSE EntryPointCode(w1, l_EntryPointIndex, "stage: " \o ToString(p_Stage), bk)

\* getSpirvFromName from "uint32_t l_EntryPointIndex = 0" on (0 is the first entry point).
ExtractFromName(w, p_Name, bk) ==
    IF w.dead THEN w
    ELSE IF IsNull(w.o.m_SlangProgram)
    THEN LET w1 == Logged(w, "getLayout", "", TRUE)
         IN IF bk.ub = "crash" THEN [Die(w1, "getSpirvFromName") EXCEPT !.ret = <<>>]
            ELSE [Fail(w1, "code", "Failed to get SPIR-V for shader entry point: " \o p_Name)
                     EXCEPT !.ret = <<>>]
    ELSE LET HasName(ep) == ep.name = p_Name
             found == FirstIndex(w.o.m_SlangProgram.eps, HasName)
             l_EntryPointIndex == IF found = 0 THEN 1 ELSE found
             w1 == Logged(w, "getLayout", "", FALSE)
         IN EntryPointCode(w1, l_EntryPointIndex, "entry point: " \o p_Name, bk)

RECURSIVE compile(_, _, _)
RECURSIVE getSpirvForStage(_, _, _)
RECURSIVE saveCodeCache(_, _)
RECURSIVE SaveEntryPoints(_, _, _, _)
RECURSIVE SaveCodeCacheVia(_, _, _)

\* Mutation of getSpirvForStage: the status guard is missing.
getSpirvForStage_NoGuard(w, p_Stage, bk) ==
    IF w.dead THEN w
    ELSE LET HasStage(c) == c.stage = p_Stage
             i == FirstIndex(w.o.m_CachedCodes, HasStage)
         IN IF i # 0 THEN [w EXCEPT !.ret = w.o.m_CachedCodes[i].spirv]
            ELSE ExtractForStage(IF w.o.m_Result.status = CACHED
                                 THEN compile(w, TRUE, bk) ELSE w, p_Stage, bk)

\* Mutation of getSpirvForStage: no fallback compile(true) when the status is CACHED.
getSpirvForStage_NoFallback(w, p_Stage, bk) ==
    IF w.dead THEN w
    ELSE IF w.o.m_Result.status # COMPILED /\ w.o.m_Result.status # CACHED
    THEN [Fail(w, "notready", "Shader compilation not finished") EXCEPT !.ret = <<>>]
    ELSE LET HasStage(c) == c.stage = p_Stage
             i == FirstIndex(w.o.m_CachedCodes, HasStage)
         IN IF i # 0 THEN [w EXCEPT !.ret = w.o.m_CachedCodes[i].spirv]
            ELSE ExtractForStage(w, p_Stage, bk)

getSpirvForStage(w, p_Stage, bk) ==
    IF w.dead THEN w
    ELSE IF w.o.m_Result.status # COMPILED /\ w.o.m_Result.status # CACHED
    THEN [Fail(w, "notready", "Shader compilation not finished") EXCEPT !.ret = <<>>]
    ELSE LET HasStage(c) == c.stage = p_Stage
             i == FirstIndex(w.o.m_CachedCodes, HasStage)
         IN IF i # 0 THEN [w EXCEPT !.ret = w.o.m_CachedCodes[i].spirv]
            ELSE ExtractForStage(IF w.o.m_Result.status = CACHED
                                 THEN compile(w, TRUE, bk) ELSE w, p_Stage, bk)

getSpirvFromName(w, p_Name, bk) ==
    IF w.dead THEN w
    ELSE IF w.o.m_Result.status # COMPILED /\ w.o.m_Result.status # CACHED
    THEN [Fail(w, "notready", "Shader compilation not finished") EXCEPT !.ret = <<>>]
    ELSE LET HasName(c) == c.name = p_Name
             i == FirstIndex(w.o.m_CachedCodes, HasName)
         IN IF i # 0 THEN [w EXCEPT !.ret = w.o.m_CachedCodes[i].spirv]
            ELSE ExtractFromName(IF w.o.m_Result.status = CACHED
                                 THEN compile(w, TRUE, bk) ELSE w, p_Name, bk)

\* The loop of saveCodeCache over the layout's entry points, from entry point i on.
\* .hit tells whether the loop ran to its end.
SaveEntryPoints(w, eps, i, bk) ==
    IF w.dead THEN w
    ELSE IF i > Len(eps) THEN [w EXCEPT !.hit = TRUE]
    ELSE LET l_Stage == getVkStageFromSlangStage(eps[i].stage)
             w1 == getSpirvForStage(w, l_Stage, bk)
         IN IF w1.dead THEN w1
            ELSE IF w1.o.m_Result.status = FAILED THEN [w1 EXCEPT !.hit = FALSE]
            ELSE SaveEntryPoints(
                     [w1 EXCEPT !.o.m_CachedCodes =
                         Append(@, [stage |-> l_Stage, name |-> eps[i].name, spirv |-> w1.ret])],
                     eps, i + 1, bk)

\* What reaches the file when the stream fails at the header, at the count or inside
\* the last record: a failed stream ignores every later write.
Written(full, fault) ==
    IF fault = "failHeader" THEN <<>>
    ELSE IF fault = "failCount" THEN SubSeq(full, 1, 1)
    ELSE IF fault = "failRecord" /\ Len(full) > 2 THEN SubSeq(full, 1, Len(full) - 1)
    ELSE full

StreamFailed(w, full, fault) ==
    IF Written(full, fault) # full THEN Logged(w, "ofstream::write", fault, FALSE) ELSE w

\* saveCodeCache, writing to l_TempFile before the rename over m_HashFile.
SaveCodeCacheVia(w, l_TempFile, bk) ==
    IF w.dead \/ w.o.m_Result.status # COMPILED THEN w
    ELSE IF bk.fault = "failOpen" THEN Logged(w, "ofstream::open", l_TempFile, FALSE)
    ELSE LET hash == getHash(w.o.m_Hash)
             l_HashValue == ContentKey(hash.m_HashValue, w.o.m_Optimize)
             wOpen == [w EXCEPT !.fs[l_TempFile] = FileOf(<<>>), !.o.m_Hash = hash]
             wHeader == [wOpen EXCEPT !.fs[l_TempFile] = FileOf(<<CacheHeader(l_HashValue)>>)]
             nullProgram == IsNull(w.o.m_SlangProgram)
             wLayout == Logged(wHeader, "getLayout", "", nullProgram)
             wCodes == SaveEntryPoints(wLayout,
                                       IF nullProgram THEN <<>> ELSE w.o.m_SlangProgram.eps,
                                       1, bk)
             full == WriteCache(l_HashValue, wCodes.o.m_CachedCodes)
         IN IF bk.fault = "killOpen" THEN Die(wOpen, "saveCodeCache")
            ELSE IF bk.fault = "killHeader" THEN Die(wHeader, "saveCodeCache")
            ELSE IF nullProgram /\ bk.ub = "crash" THEN Die(wLayout, "saveCodeCache")
            ELSE IF wCodes.dead \/ ~wCodes.hit THEN wCodes
            ELSE IF bk.fault = "killCount"
            THEN Die([wCodes EXCEPT !.fs[l_TempFile] = FileOf(SubSeq(full, 1, 2))],
                     "saveCodeCache")
            ELSE IF bk.fault = "killRename"
            THEN Die([wCodes EXCEPT !.fs[l_TempFile] = FileOf(full)], "saveCodeCache")
            ELSE [StreamFailed(wCodes, full, bk.fault) EXCEPT
                     !.fs[l_TempFile] = NoFile,
                     !.fs[w.o.m_HashFile] = FileOf(Written(full, bk.fault))]

\* Mutation of saveCodeCache: the stream is opened on the final cache path.
saveCodeCache_InPlace(w, bk) == SaveCodeCacheVia(w, w.o.m_HashFile, bk)

saveCodeCache(w, bk) == SaveCodeCacheVia(w, TempFileOf(w.o.m_HashFile), bk)

\* Mutation of compile: a cache hit returns even when p_ForceCompile is set.
compile_IgnoreForce(w, p_ForceCompile, bk) ==
    IF w.dead THEN w
    ELSE LET hash == getHash(w.o.m_Hash)
             l_HashValue == ContentKey(hash.m_HashValue, w.o.m_Optimize)
             wLoad == IF w.o.m_UseCache
                      THEN tryLoadCachedCode([w EXCEPT !.o.m_Hash = hash], l_HashValue)
                      ELSE [w EXCEPT !.hit = FALSE]
             wHit == IF wLoad.hit THEN [wLoad EXCEPT !.o.m_Result.status = CACHED] ELSE wLoad
         IN IF wLoad.hit THEN wHit
            ELSE LET wSession == buildSession(wHit, bk)
                     wModules == LoadModules(wSession, 1, bk)
                     wLinked == linkAndFinalize(wModules, bk)
                 IN IF w.o.m_UseCache THEN saveCodeCache(wLinked, bk) ELSE wLinked

compile(w, p_ForceCompile, bk) ==
    IF w.dead THEN w
    ELSE LET hash == getHash(w.o.m_Hash)
             l_HashValue == ContentKey(hash.m_HashValue, w.o.m_Optimize)
             wLoad == IF w.o.m_UseCache
                      THEN tryLoadCachedCode([w EXCEPT !.o.m_Hash = hash], l_HashValue)
                      ELSE [w EXCEPT !.hit = FALSE]
             wHit == IF wLoad.hit THEN [wLoad EXCEPT !.o.m_Result.status = CACHED] ELSE wLoad
         IN IF wLoad.hit /\ ~p_ForceCompile THEN wHit
            ELSE LET wSession == buildSession(wHit, bk)
                     wModules == LoadModules(wSession, 1, bk)
                     wLinked == linkAndFinalize(wModules, bk)
                 IN IF w.o.m_UseCache THEN saveCodeCache(wLinked, bk) ELSE wLinked

\* ~VulkanShader(): the program, then the session, each released when not null.
VulkanShader_dtor(w) ==
    LET w1 == IF IsNull(w.o.m_SlangProgram) THEN w
              ELSE [Release(w, w.o.m_SlangProgram) EXCEPT !.o.m_SlangProgram = NullHandle]
    IN IF IsNull(w1.o.m_SlangSession) THEN w1
       ELSE [Release(w1, w1.o.m_SlangSession) EXCEPT !.o.m_SlangSession = NullHandle]

\* VulkanShader::reset: the destructor, then a default-constructed object in its place.
reset(w) == [VulkanShader_dtor(w) EXCEPT !.o = NewShader(0, FALSE, <<>>)]

\* VulkanShader(VulkanShader&&): the new object and what is left of p_Other (a
\* moved-from vector is empty).
MoveConstructed(p_Other) ==
    [NewShader(0, FALSE, <<>>) EXCEPT
        !.m_SlangSession = p_Other.m_SlangSession,
        !.m_SlangProgram = p_Other.m_SlangProgram,
        !.m_SlangComponents = p_Other.m_SlangComponents,
        !.m_Result = p_Other.m_Result,
        !.m_Macros = p_Other.m_Macros]

MovedFrom(p_Other) ==
    [p_Other EXCEPT !.m_SlangSession = NullHandle, !.m_SlangProgram = NullHandle,
                    !.m_SlangComponents = <<>>, !.m_Macros = <<>>]

(***************************************************************************)
(* VulkanPipelineBuilder (src/unnamed/part_001).                           *)
(*                                                                         *)
(* Every scalar field is a natural number; a hash value is the sequence of *)
(* the elements combined into it, each rendered as a string, and a         *)
(* sub-hash combined into another hash is rendered whole.  A pointer to an *)
(* array is the array it points to; a pNext chain is the sequence of its   *)
(* records, each with its type tag and the fields of its structure.  An    *)
(* uninitialised local and a read through a null or too short array are    *)
(* undefined behaviour: the value is whatever the stack or the memory      *)
(* holds, or the process dies.                                             *)
(***************************************************************************)
Builders == {"P", "Q"}

NullPtr == [null |-> TRUE, data |-> <<>>]

Ptr(data) == [null |-> FALSE, data |-> data]

ZeroStencilOpState ==
    [failOp |-> 0, passOp |-> 0, depthFailOp |-> 0, compareOp |-> 0,
     compareMask |-> 0, writeMask |-> 0, reference |-> 0]

\* The members as declared (all value-initialised) and then set by the constructor.
NewPipelineBuilder ==
    [m_VertexInputState |->
        [sType |-> "PIPELINE_VERTEX_INPUT_STATE_CREATE_INFO", pNext |-> <<>>, flags |-> 0,
         vertexBindingDescriptionCount |-> 0, pVertexBindingDescriptions |-> NullPtr,
         vertexAttributeDescriptionCount |-> 0, pVertexAttributeDescriptions |-> NullPtr],
     m_InputAssemblyState |->
        [sType |-> "PIPELINE_INPUT_ASSEMBLY_STATE_CREATE_INFO", pNext |-> <<>>, flags |-> 0,
         topology |-> 3, primitiveRestartEnable |-> 0],
     m_TessellationState |->
        [sType |-> "PIPELINE_TESSELLATION_STATE_CREATE_INFO", pNext |-> <<>>, flags |-> 0,
         patchControlPoints |-> 1],
     m_TesellationStateEnabled |-> FALSE,
     m_ViewportState |->
        [sType |-> "PIPELINE_VIEWPORT_STATE_CREATE_INFO", pNext |-> <<>>, flags |-> 0,
         viewportCount |-> 1, pViewports |-> NullPtr,
         scissorCount |-> 1, pScissors |-> NullPtr],
     m_RasterizationState |->
        [sType |-> "PIPELINE_RASTERIZATION_STATE_CREATE_INFO", pNext |-> <<>>, flags |-> 0,
         depthClampEnable |-> 0, rasterizerDiscardEnable |-> 0, polygonMode |-> 0,
         cullMode |-> 2, frontFace |-> 0, depthBiasEnable |-> 0,
         depthBiasConstantFactor |-> 0, depthBiasClamp |-> 0, depthBiasSlopeFactor |-> 0,
         lineWidth |-> 1],
     m_MultisampleState |->
        [sType |-> "PIPELINE_MULTISAMPLE_STATE_CREATE_INFO", pNext |-> <<>>, flags |-> 0,
         rasterizationSamples |-> 1, sampleShadingEnable |-> 0, minSampleShading |-> 0,
         pSampleMask |-> NullPtr, alphaToCoverageEnable |-> 0, alphaToOneEnable |-> 0],
     m_DepthStencilState |->
        [sType |-> "PIPELINE_DEPTH_STENCIL_STATE_CREATE_INFO", pNext |-> <<>>, flags |-> 0,
         depthTestEnable |-> 1, depthWriteEnable |-> 1, depthCompareOp |-> 1,
         depthBoundsTestEnable |-> 0, stencilTestEnable |-> 0,
         front |-> ZeroStencilOpState, back |-> ZeroStencilOpState,
         minDepthBounds |-> 0, maxDepthBounds |-> 0],
     m_ColorBlendState |->
        [sType |-> "PIPELINE_COLOR_BLEND_STATE_CREATE_INFO", pNext |-> <<>>, flags |-> 0,
         logicOpEnable |-> 0, logicOp |-> 3, attachmentCount |-> 0,
         pAttachments |-> NullPtr, blendConstants |-> <<0, 0, 0, 0>>],
     m_DynamicState |->
        [sType |-> "PIPELINE_DYNAMIC_STATE_CREATE_INFO", pNext |-> <<>>, flags |-> 0,
         dynamicStateCount |-> 0, pDynamicStates |-> NullPtr],
     m_ShaderStages |-> <<>>,
     m_VertexInputBindings |-> <<>>,
     m_VertexInputAttributes |-> <<>>,
     m_CurrentVertexAttrLocation |-> 0,
     m_Viewports |-> <<>>,
     m_Scissors |-> <<>>,
     m_Attachments |-> <<>>,
     m_DynamicStates |-> <<>>]

\* The loop of addVertexBinding over the attributes of the binding, from attribute i on.
RECURSIVE AddAttributes(_, _, _, _)
AddAttributes(o, l_Attributes, i, p_RecalculateLocations) ==
    IF i > Len(l_Attributes) THEN o
    ELSE LET l_Attr == l_Attributes[i]
             pushed == IF p_RecalculateLocations
                       THEN [l_Attr EXCEPT !.location = o.m_CurrentVertexAttrLocation]
                       ELSE l_Attr
             next == [o EXCEPT !.m_VertexInputAttributes = Append(@, pushed),
                               !.m_CurrentVertexAttrLocation =
                                   IF p_RecalculateLocations THEN @ + l_Attr.location ELSE @]
         IN AddAttributes(next, l_Attributes, i + 1, p_RecalculateLocations)

addVertexBinding(o, p_Binding, p_RecalculateLocations) ==
    LET bound == [o EXCEPT !.m_VertexInputBindings = Append(@, p_Binding.description)]
        added == AddAttributes(bound, p_Binding.attributes, 1, p_RecalculateLocations)
    IN [added EXCEPT
          !.m_VertexInputState.vertexBindingDescriptionCount = Len(added.m_VertexInputBindings),
          !.m_VertexInputState.pVertexBindingDescriptions = Ptr(added.m_VertexInputBindings),
          !.m_VertexInputState.vertexAttributeDescriptionCount =
              Len(added.m_VertexInputAttributes),
          !.m_VertexInputState.pVertexAttributeDescriptions =
              Ptr(added.m_VertexInputAttributes)]

setInputAssemblyState(o, p_Topology, p_PrimitiveRestartEnable) ==
    [o EXCEPT !.m_InputAssemblyState.topology = p_Topology,
              !.m_InputAssemblyState.primitiveRestartEnable = p_PrimitiveRestartEnable]

setTessellationState(o, p_PatchControlPoints) ==
    [o EXCEPT !.m_TessellationState.patchControlPoints = p_PatchControlPoints,
              !.m_TesellationStateEnabled = TRUE]

setViewportState_Counts(o, p_ViewportCount, p_ScissorCount) ==
    [o EXCEPT !.m_ViewportState.viewportCount = p_ViewportCount,
              !.m_ViewportState.scissorCount = p_ScissorCount]

setViewportState_Spans(o, p_Viewports, p_Scissors) ==
    [o EXCEPT !.m_Viewports = p_Viewports,
              !.m_Scissors = p_Scissors,
              !.m_ViewportState.viewportCount = Len(p_Viewports),
              !.m_ViewportState.pViewports = Ptr(p_Viewports),
              !.m_ViewportState.scissorCount = Len(p_Scissors),
              !.m_ViewportState.pScissors = Ptr(p_Scissors)]

setRasterizationState(o, p_PolygonMode, p_CullMode, p_FrontFace) ==
    [o EXCEPT !.m_RasterizationState.polygonMode = p_PolygonMode,
              !.m_RasterizationState.cullMode = p_CullMode,
              !.m_RasterizationState.frontFace = p_FrontFace]

setMultisampleState(o, p_RasterizationSamples, p_SampleShadingEnable, p_MinSampleShading) ==
    [o EXCEPT !.m_MultisampleState.rasterizationSamples = p_RasterizationSamples,
              !.m_MultisampleState.sampleShadingEnable = p_SampleShadingEnable,
              !.m_MultisampleState.minSampleShading = p_MinSampleShading]

setDepthStencilState(o, p_DepthTestEnable, p_DepthWriteEnable, p_DepthCompareOp) ==
    [o EXCEPT !.m_DepthStencilState.depthTestEnable = p_DepthTestEnable,
              !.m_DepthStencilState.depthWriteEnable = p_DepthWriteEnable,
              !.m_DepthStencilState.depthCompareOp = p_DepthCompareOp]

setColorBlendState(o, p_LogicOpEnable, p_LogicOp, p_ColorBlendConstants) ==
    [o EXCEPT !.m_ColorBlendState.logicOpEnable = p_LogicOpEnable,
              !.m_ColorBlendState.logicOp = p_LogicOp,
              !.m_ColorBlendState.blendConstants = p_ColorBlendConstants]

addColorBlendAttachment(o, p_Attachment) ==
    LET l_Attachments == Append(o.m_Attachments, p_Attachment)
    IN [o EXCEPT !.m_Attachments = l_Attachments,
                 !.m_ColorBlendState.attachmentCount = Len(l_Attachments),
                 !.m_ColorBlendState.pAttachments = Ptr(l_Attachments)]

setDynamicState_Span(o, p_DynamicStates) ==
    [o EXCEPT !.m_DynamicStates = p_DynamicStates,
              !.m_DynamicState.dynamicStateCount = Len(p_DynamicStates),
              !.m_DynamicState.pDynamicStates = Ptr(p_DynamicStates)]

addShaderStage(o, p_Shader, p_Entrypoint) ==
    [o EXCEPT !.m_ShaderStages = Append(@, [shader |-> p_Shader, entrypoint |-> p_Entrypoint])]

resetShaderStages(o) == [o EXCEPT !.m_ShaderStages = <<>>]

\* The whole-structure setters: the structure is copied and its sType is set.
setVertexInputState(o, p_State) ==
    [o EXCEPT !.m_VertexInputState =
                  [p_State EXCEPT !.sType = "PIPELINE_VERTEX_INPUT_STATE_CREATE_INFO"],
              !.m_VertexInputBindings = <<>>,
              !.m_VertexInputAttributes = <<>>]

setInputAssemblyState_Struct(o, p_State) ==
    [o EXCEPT !.m_InputAssemblyState =
                  [p_State EXCEPT !.sType = "PIPELINE_INPUT_ASSEMBLY_STATE_CREATE_INFO"]]

setTessellationState_Struct(o, p_State) ==
    [o EXCEPT !.m_TessellationState =
                  [p_State EXCEPT !.sType = "PIPELINE_TESSELLATION_STATE_CREATE_INFO"],
              !.m_TesellationStateEnabled = TRUE]

setViewportState_Struct(o, p_State) ==
    [o EXCEPT !.m_ViewportState =
                  [p_State EXCEPT !.sType = "PIPELINE_VIEWPORT_STATE_CREATE_INFO"]]

setRasterizationState_Struct(o, p_State) ==
    [o EXCEPT !.m_RasterizationState =
                  [p_State EXCEPT !.sType = "PIPELINE_RASTERIZATION_STATE_CREATE_INFO"]]

setMultisampleState_Struct(o, p_State) ==
    [o EXCEPT !.m_MultisampleState =
                  [p_State EXCEPT !.sType = "PIPELINE_MULTISAMPLE_STATE_CREATE_INFO"]]

setDepthStencilState_Struct(o, p_State) ==
    [o EXCEPT !.m_DepthStencilState =
                  [p_State EXCEPT !.sType = "PIPELINE_DEPTH_STENCIL_STATE_CREATE_INFO"]]

setColorBlendState_Struct(o, p_State) ==
    [o EXCEPT !.m_ColorBlendState =
                  [p_State EXCEPT !.sType = "PIPELINE_COLOR_BLEND_STATE_CREATE_INFO"],
              !.m_Attachments = <<>>]

setDynamicState_Struct(o, p_State) ==
    [o EXCEPT !.m_DynamicState =
                  [p_State EXCEPT !.sType = "PIPELINE_DYNAMIC_STATE_CREATE_INFO"]]

(***************************************************************************)
(* VulkanPipelineBuilder::getHash and the nine sub-hashes.                 *)
(***************************************************************************)
Feed(l_Hash, p_Element) == hashCombine(l_Hash, ToString(p_Element))

RECURSIVE FeedAll(_, _)
FeedAll(l_Hash, elements) ==
    IF elements = <<>> THEN l_Hash
    ELSE FeedAll(Feed(l_Hash, Head(elements)), Tail(elements))

\* A hash value as the element it is when combined into another hash.
RECURSIVE Render(_)
Render(l_Hash) ==
    IF l_Hash = <<>> THEN "." ELSE Head(l_Hash) \o "," \o Render(Tail(l_Hash))

Pick(rec, names) == [k \in 1..Len(names) |-> rec[names[k]]]

\* The named fields of every element of an array, in array order.
RECURSIVE Flat(_, _)
Flat(array, names) ==
    IF array = <<>> THEN <<>> ELSE Pick(Head(array), names) \o Flat(Tail(array), names)

RECURSIVE Concat(_)
Concat(arrays) == IF arrays = <<>> THEN <<>> ELSE Head(arrays) \o Concat(Tail(arrays))

\* The elements 1..count read through a pointer; a null pointer or an element past
\* the end of the array reads whatever the memory holds.
Elements(ptr, count, names, mem) ==
    [i \in 1..count |->
        IF ~ptr.null /\ i <= Len(ptr.data) THEN ptr.data[i]
        ELSE [n \in {names[k] : k \in 1..Len(names)} |-> mem]]

Scalars(ptr, count, mem) ==
    [i \in 1..count |-> IF ~ptr.null /\ i <= Len(ptr.data) THEN ptr.data[i] ELSE mem]

Overrun(ptr, count) == count > (IF ptr.null THEN 0 ELSE Len(ptr.data))

\* getHash reads an array through a null pointer or past its end.
OutOfBounds(o) ==
    \/ Overrun(o.m_VertexInputState.pVertexBindingDescriptions,
               o.m_VertexInputState.vertexBindingDescriptionCount)
    \/ Overrun(o.m_VertexInputState.pVertexAttributeDescriptions,
               o.m_VertexInputState.vertexAttributeDescriptionCount)
    \/ Overrun(o.m_ViewportState.pViewports, o.m_ViewportState.viewportCount)
    \/ Overrun(o.m_ViewportState.pScissors, o.m_ViewportState.scissorCount)
    \/ Overrun(o.m_ColorBlendState.pAttachments, o.m_ColorBlendState.attachmentCount)
    \/ Overrun(o.m_DynamicState.pDynamicStates, o.m_DynamicState.dynamicStateCount)

RECURSIVE CustomSampleOrders(_)
CustomSampleOrders(orders) ==
    IF orders = <<>> THEN <<>>
    ELSE <<Head(orders).shadingRate, Head(orders).sampleCount>>
         \o Flat(Head(orders).pSampleLocations, <<"pixelX", "pixelY", "sample">>)
         \o CustomSampleOrders(Tail(orders))

\* What the case of each recognised type tag combines, in order.  The arrays of an
\* extension record hold as many elements as its count field says.
ExtensionData(rec) ==
    CASE rec.sType = "PIPELINE_VERTEX_INPUT_DIVISOR_STATE_CREATE_INFO_EXT" ->
            Flat(rec.pVertexBindingDivisors, <<"binding", "divisor">>)
      [] rec.sType = "PIPELINE_TESSELLATION_DOMAIN_ORIGIN_STATE_CREATE_INFO" ->
            <<rec.domainOrigin>>
      [] rec.sType = "PIPELINE_VIEWPORT_COARSE_SAMPLE_ORDER_STATE_CREATE_INFO_NV" ->
            <<rec.sampleOrderType>> \o CustomSampleOrders(rec.pCustomSampleOrders)
      [] rec.sType = "PIPELINE_VIEWPORT_DEPTH_CLAMP_CONTROL_CREATE_INFO_EXT" ->
            <<rec.depthClampMode>>
            \o (IF rec.pDepthClampRange.null THEN <<>>
                ELSE Flat(rec.pDepthClampRange.data, <<"minDepthClamp", "maxDepthClamp">>))
      [] rec.sType = "PIPELINE_VIEWPORT_DEPTH_CLIP_CONTROL_CREATE_INFO_EXT" ->
            <<rec.negativeOneToOne>>
      [] rec.sType = "PIPELINE_VIEWPORT_EXCLUSIVE_SCISSOR_STATE_CREATE_INFO_NV" ->
            Flat(rec.pExclusiveScissors, <<"x", "y", "width", "height">>)
      [] rec.sType = "PIPELINE_VIEWPORT_SHADING_RATE_IMAGE_STATE_CREATE_INFO_NV" ->
            <<rec.shadingRateImageEnable>> \o Concat(rec.pShadingRatePalettes)
      [] rec.sType = "PIPELINE_VIEWPORT_SWIZZLE_STATE_CREATE_INFO_NV" ->
            <<rec.flags>> \o Flat(rec.pViewportSwizzles, <<"x", "y", "z", "w">>)
      [] rec.sType = "PIPELINE_VIEWPORT_W_SCALING_STATE_CREATE_INFO_NV" ->
            <<rec.viewportWScalingEnable>>
            \o Flat(rec.pViewportWScalings, <<"xcoeff", "ycoeff">>)
      [] rec.sType = "DEPTH_BIAS_REPRESENTATION_INFO_EXT" ->
            <<rec.depthBiasRepresentation>>
      [] rec.sType = "PIPELINE_RASTERIZATION_CONSERVATIVE_STATE_CREATE_INFO_EXT" ->
            <<rec.conservativeRasterizationMode, rec.extraPrimitiveOverestimationSize>>
      [] rec.sType = "PIPELINE_RASTERIZATION_DEPTH_CLIP_STATE_CREATE_INFO_EXT" ->
            <<rec.flags, rec.depthClipEnable>>
      [] rec.sType = "PIPELINE_RASTERIZATION_LINE_STATE_CREATE_INFO" ->
            <<rec.lineRasterizationMode, rec.stippledLineEnable, rec.lineStippleFactor,
              rec.lineStipplePattern>>
      [] rec.sType = "PIPELINE_RASTERIZATION_PROVOKING_VERTEX_STATE_CREATE_INFO_EXT" ->
            <<rec.provokingVertexMode>>
      [] rec.sType = "PIPELINE_RASTERIZATION_STATE_RASTERIZATION_ORDER_AMD" ->
            <<rec.rasterizationOrder>>
      [] rec.sType = "PIPELINE_RASTERIZATION_STATE_STREAM_CREATE_INFO_EXT" ->
            <<rec.flags, rec.rasterizationStream>>
      [] rec.sType = "PIPELINE_COVERAGE_MODULATION_STATE_CREATE_INFO_NV" ->
            <<rec.flags, rec.coverageModulationMode, rec.coverageModulationTableEnable>>
            \o rec.pCoverageModulationTable
      [] rec.sType = "PIPELINE_COVERAGE_REDUCTION_STATE_CREATE_INFO_NV" ->
            <<rec.flags, rec.coverageReductionMode>>
      [] rec.sType = "PIPELINE_COVERAGE_TO_COLOR_STATE_CREATE_INFO_NV" ->
            <<rec.flags, rec.coverageToColorEnable, rec.coverageToColorLocation>>
      [] rec.sType = "PIPELINE_SAMPLE_LOCATIONS_STATE_CREATE_INFO_EXT" ->
            <<rec.sampleLocationsEnable>>
            \o (IF rec.sampleLocationsEnable # 0
                THEN <<rec.sampleLocationsPerPixel, rec.sampleLocationGridSize.width,
                       rec.sampleLocationGridSize.height>>
                     \o Flat(rec.pSampleLocations, <<"x", "y">>)
                ELSE <<>>)
      [] rec.sType = "PIPELINE_COLOR_WRITE_CREATE_INFO_EXT" ->
            rec.pColorWriteEnables
      [] rec.sType = "PIPELINE_COLOR_BLEND_ADVANCED_STATE_CREATE_INFO_EXT" ->
            <<rec.srcPremultiplied, rec.dstPremultiplied, rec.blendOverlap>>
      [] OTHER -> <<>>

\* The type tags each sub-hash has a case for.
VertexInputExtensions == {"PIPELINE_VERTEX_INPUT_DIVISOR_STATE_CREATE_INFO_EXT"}

TessellationExtensions == {"PIPELINE_TESSELLATION_DOMAIN_ORIGIN_STATE_CREATE_INFO"}

ViewportExtensions ==
    {"PIPELINE_TESSELLATION_DOMAIN_ORIGIN_STATE_CREATE_INFO",
     "PIPELINE_VIEWPORT_COARSE_SAMPLE_ORDER_STATE_CREATE_INFO_NV",
     "PIPELINE_VIEWPORT_DEPTH_CLAMP_CONTROL_CREATE_INFO_EXT",
     "PIPELINE_VIEWPORT_DEPTH_CLIP_CONTROL_CREATE_INFO_EXT",
     "PIPELINE_VIEWPORT_EXCLUSIVE_SCISSOR_STATE_CREATE_INFO_NV",
     "PIPELINE_VIEWPORT_SHADING_RATE_IMAGE_STATE_CREATE_INFO_NV",
     "PIPELINE_VIEWPORT_SWIZZLE_STATE_CREATE_INFO_NV",
     "PIPELINE_VIEWPORT_W_SCALING_STATE_CREATE_INFO_NV"}

RasterizationExtensions ==
    {"DEPTH_BIAS_REPRESENTATION_INFO_EXT",
     "PIPELINE_RASTERIZATION_CONSERVATIVE_STATE_CREATE_INFO_EXT",
     "PIPELINE_RASTERIZATION_DEPTH_CLIP_STATE_CREATE_INFO_EXT",
     "PIPELINE_RASTERIZATION_LINE_STATE_CREATE_INFO",
     "PIPELINE_RASTERIZATION_PROVOKING_VERTEX_STATE_CREATE_INFO_EXT",
     "PIPELINE_RASTERIZATION_STATE_RASTERIZATION_ORDER_AMD",
     "PIPELINE_RASTERIZATION_STATE_STREAM_CREATE_INFO_EXT"}

MultisampleExtensions ==
    {"PIPELINE_COVERAGE_MODULATION_STATE_CREATE_INFO_NV",
     "PIPELINE_COVERAGE_REDUCTION_STATE_CREATE_INFO_NV",
     "PIPELINE_COVERAGE_TO_COLOR_STATE_CREATE_INFO_NV",
     "PIPELINE_SAMPLE_LOCATIONS_STATE_CREATE_INFO_EXT"}

ColorBlendExtensions ==
    {"PIPELINE_COLOR_WRITE_CREATE_INFO_EXT",
     "PIPELINE_COLOR_BLEND_ADVANCED_STATE_CREATE_INFO_EXT"}

\* One turn of a switch over the type tag of a record.
Switch(l_Hash, rec, cases) ==
    IF rec.sType \in cases THEN FeedAll(l_Hash, ExtensionData(rec)) ELSE l_Hash

\* if (pNext) { switch (l_PNext->sType) ... }: the first record only.
FirstRecord(l_Hash, pNext, cases) ==
    IF pNext # <<>> THEN Switch(l_Hash, pNext[1], cases) ELSE l_Hash

\* while (l_PNext) { switch ...; l_PNext = l_PNext->pNext; }
RECURSIVE Walk(_, _, _)
Walk(l_Hash, pNext, cases) ==
    IF pNext = <<>> THEN l_Hash
    ELSE Walk(Switch(l_Hash, Head(pNext), cases), Tail(pNext), cases)

\* Each sub-hash starts from its local l_Hash, which is never initialised: l_Seed.
getVertexInputHash(o, l_Seed, mem) ==
    LET s == o.m_VertexInputState
        h1 == Feed(FirstRecord(l_Seed, s.pNext, VertexInputExtensions), s.flags)
        h2 == FeedAll(h1, Flat(Elements(s.pVertexBindingDescriptions,
                                        s.vertexBindingDescriptionCount,
                                        <<"binding", "stride", "inputRate">>, mem),
                               <<"binding", "stride", "inputRate">>))
    IN FeedAll(h2, Flat(Elements(s.pVertexAttributeDescriptions,
                                 s.vertexAttributeDescriptionCount,
                                 <<"location", "binding", "format", "offset">>, mem),
                        <<"location", "binding", "format", "offset">>))

getInputAssemblyHash(o, l_Seed) ==
    FeedAll(l_Seed, Pick(o.m_InputAssemblyState,
                         <<"flags", "topology", "primitiveRestartEnable">>))

getTessellationHash(o, l_Seed) ==
    FeedAll(FirstRecord(l_Seed, o.m_TessellationState.pNext, TessellationExtensions),
            Pick(o.m_TessellationState, <<"flags", "patchControlPoints">>))

getViewportStateHash(o, l_Seed, mem) ==
    LET s == o.m_ViewportState
        h1 == FeedAll(Walk(l_Seed, s.pNext, ViewportExtensions),
                      <<s.flags, s.viewportCount>>)
        h2 == FeedAll(h1, Flat(Elements(s.pViewports, s.viewportCount,
                                        <<"x", "y", "width", "height", "minDepth",
                                          "maxDepth">>, mem),
                               <<"x", "y", "width", "height", "minDepth", "maxDepth">>))
        h3 == hashCombine(h2, "hash:" \o ToString(s.scissorCount))
    IN FeedAll(h3, Flat(Elements(s.pScissors, s.scissorCount,
                                 <<"x", "y", "width", "height">>, mem),
                        <<"x", "y", "width", "height">>))

getRasterizationHash(o, l_Seed) ==
    FeedAll(Walk(l_Seed, o.m_RasterizationState.pNext, RasterizationExtensions),
            Pick(o.m_RasterizationState,
                 <<"flags", "depthClampEnable", "rasterizerDiscardEnable", "polygonMode",
                   "cullMode", "frontFace", "depthBiasEnable">>))

getMultisampleHash(o, l_Seed) ==
    FeedAll(Walk(l_Seed, o.m_MultisampleState.pNext, MultisampleExtensions),
            Pick(o.m_MultisampleState,
                 <<"flags", "rasterizationSamples", "sampleShadingEnable",
                   "minSampleShading", "alphaToCoverageEnable", "alphaToOneEnable">>))

StencilOpFields ==
    <<"failOp", "passOp", "depthFailOp", "compareOp", "compareMask", "writeMask",
      "reference">>

getDepthStencilHash(o, l_Seed) ==
    LET s == o.m_DepthStencilState
        h1 == FeedAll(l_Seed, Pick(s, <<"flags", "depthTestEnable", "depthWriteEnable",
                                        "depthCompareOp", "depthBoundsTestEnable",
                                        "stencilTestEnable">>))
        h2 == FeedAll(h1, Pick(s.front, StencilOpFields) \o Pick(s.back, StencilOpFields))
    IN FeedAll(h2, <<s.minDepthBounds, s.maxDepthBounds>>)

AttachmentFields ==
    <<"blendEnable", "srcColorBlendFactor", "dstColorBlendFactor", "colorBlendOp",
      "srcAlphaBlendFactor", "dstAlphaBlendFactor", "alphaBlendOp", "colorWriteMask">>

getColorBlendHash(o, l_Seed, mem) ==
    LET s == o.m_ColorBlendState
        h1 == FeedAll(Walk(l_Seed, s.pNext, ColorBlendExtensions),
                      <<s.flags, s.logicOpEnable, s.logicOp>>)
        h2 == FeedAll(h1, Flat(Elements(s.pAttachments, s.attachmentCount,
                                        AttachmentFields, mem),
                               AttachmentFields))
    IN FeedAll(h2, s.blendConstants)

getDynamicStateHash(o, l_Seed, mem) ==
    LET s == o.m_DynamicState
    IN FeedAll(Feed(l_Seed, s.flags), Scalars(s.pDynamicStates, s.dynamicStateCount, mem))

\* VulkanShaderModule::getStage of the modules the device holds.
ShaderModuleStage(p_Shader) ==
    IF p_Shader = 1 THEN VK_SHADER_STAGE_VERTEX_BIT ELSE VK_SHADER_STAGE_FRAGMENT_BIT

RECURSIVE ShaderStagesHash(_, _)
ShaderStagesHash(l_Hash, stages) ==
    IF stages = <<>> THEN l_Hash
    ELSE ShaderStagesHash(
             hashCombine(Feed(l_Hash, ShaderModuleStage(Head(stages).shader)),
                         Head(stages).entrypoint),
             Tail(stages))

\* getHash with the input-assembly sub-hash combined before the vertex-input one.
VulkanPipelineBuilder_getHash_InputAssemblyFirst(o, p_Hash, env) ==
    IF OutOfBounds(o) /\ env.ub = "crash" THEN [died |-> TRUE, value |-> ZeroHash]
    ELSE LET h0 == ShaderStagesHash(hashCombine(ZeroHash, p_Hash), o.m_ShaderStages)
             h1 == hashCombine(h0, Render(getInputAssemblyHash(o, env.seeds["inputAssembly"])))
             h2 == hashCombine(h1, Render(getVertexInputHash(o, env.seeds["vertexInput"],
                                                             env.mem)))
             h3 == IF o.m_TesellationStateEnabled
                   THEN hashCombine(h2, Render(getTessellationHash(o, env.seeds["tessellation"])))
                   ELSE h2
             h4 == hashCombine(h3, Render(getViewportStateHash(o, env.seeds["viewport"],
                                                               env.mem)))
             h5 == hashCombine(h4, Render(getRasterizationHash(o, env.seeds["rasterization"])))
             h6 == hashCombine(h5, Render(getMultisampleHash(o, env.seeds["multisample"])))
             h7 == hashCombine(h6, Render(getDepthStencilHash(o, env.seeds["depthStencil"])))
             h8 == hashCombine(h7, Render(getColorBlendHash(o, env.seeds["colorBlend"],
                                                            env.mem)))
             h9 == hashCombine(h8, Render(getDynamicStateHash(o, env.seeds["dynamicState"],
                                                              env.mem)))
         IN [died |-> FALSE, value |-> h9]

\* VulkanPipelineBuilder::getHash.  env.seeds is the stack content each sub-hash finds
\* in its l_Hash, env.mem what an out-of-bounds read finds, env.ub whether such a read
\* kills the process.
VulkanPipelineBuilder_getHash(o, p_Hash, env) ==
    IF OutOfBounds(o) /\ env.ub = "crash" THEN [died |-> TRUE, value |-> ZeroHash]
    ELSE LET h0 == ShaderStagesHash(hashCombine(ZeroHash, p_Hash), o.m_ShaderStages)
             h1 == hashCombine(h0, Render(getVertexInputHash(o, env.seeds["vertexInput"],
                                                             env.mem)))
             h2 == hashCombine(h1, Render(getInputAssemblyHash(o, env.seeds["inputAssembly"])))
             h3 == IF o.m_TesellationStateEnabled
                   THEN hashCombine(h2, Render(getTessellationHash(o, env.seeds["tessellation"])))
                   ELSE h2
             h4 == hashCombine(h3, Render(getViewportStateHash(o, env.seeds["viewport"],
                                                               env.mem)))
             h5 == hashCombine(h4, Render(getRasterizationHash(o, env.seeds["rasterization"])))
             h6 == hashCombine(h5, Render(getMultisampleHash(o, env.seeds["multisample"])))
             h7 == hashCombine(h6, Render(getDepthStencilHash(o, env.seeds["depthStencil"])))
             h8 == hashCombine(h7, Render(getColorBlendHash(o, env.seeds["colorBlend"],
                                                            env.mem)))
             h9 == hashCombine(h8, Render(getDynamicStateHash(o, env.seeds["dynamicState"],
                                                              env.mem)))
         IN [died |-> FALSE, value |-> h9]

InitialBuilders == [b \in Builders |-> NewPipelineBuilder]

BuilderOp(op, b, arg, r) ==
    [op |-> op, b |-> b, arg |-> arg, ret |-> r.value, died |-> r.died]

NoBuilderOp == BuilderOp("start", "", "", [value |-> ZeroHash, died |-> FALSE])

(***************************************************************************)
(* The operations, one action each.                                        *)
(***************************************************************************)
World(s) ==
    [o |-> sh[s], sessions |-> s_SlangSessions, fs |-> fs, disk |-> disk, heap |-> heap,
     calls |-> <<>>, ret |-> <<>>, hit |-> FALSE, dead |-> FALSE]

Op(op, s, arg, w, threw) ==
    [op |-> op, s |-> s, arg |-> arg, ret |-> w.ret, calls |-> w.calls, threw |-> threw]

InitialShaders == [s \in Shaders |-> NewShader(1, FALSE, MacroD1)]

\* A process that died holds no object any more.
Commit(s, w, op, arg) ==
    /\ opCount[s] < MaxSteps
    /\ opCount' = [opCount EXCEPT ![s] = @ + 1]
    /\ sh' = IF w.dead THEN InitialShaders ELSE [sh EXCEPT ![s] = w.o]
    /\ s_SlangSessions' = IF w.dead THEN NoSessions ELSE w.sessions
    /\ fs' = w.fs
    /\ dead' = w.dead
    /\ lastOp' = Op(op, s, arg, w, FALSE)
    /\ heap' = IF w.dead THEN EmptyHeap ELSE w.heap
    /\ UNCHANGED <<disk, pb, pbOp, pbCount, thr, shaderHash, shaderHashOp, saves>>

\* The configuration calls are made before the first compile() or getSpirv*().
Configure(s, o, op, threw) ==
    /\ ~dead
    /\ opCount[s] = 0
    /\ sh' = [sh EXCEPT ![s] = o]
    /\ lastOp' = Op(op, s, <<>>, World(s), threw)
    /\ UNCHANGED <<s_SlangSessions, fs, disk, opCount, dead, pb, pbOp, pbCount, heap, thr, shaderHash, shaderHashOp, saves>>

Reinit(s, p_CompilationThread, p_Optimize, p_Macros) ==
    Configure(s, NewShader(p_CompilationThread, p_Optimize, p_Macros), "reinit", FALSE)

EnableCache(s, p_CacheFile) ==
    Configure(s, [sh[s] EXCEPT !.m_UseCache = TRUE, !.m_HashFile = p_CacheFile],
              "enableCache", FALSE)

SetExpectedStages(s, p_Stages, p_EntryPoints) ==
    Configure(s, [sh[s] EXCEPT !.m_ExpectedStages = p_Stages,
                               !.m_ExpectedEntryPoints = p_EntryPoints],
              "setExpectedStages", FALSE)

ModuleHashed(h, content, type, name) ==
    addMacro(addMacro(addString(h, content), "type", type), "name", name)

\* addModule: ShaderHash::addFile throws when the file cannot be opened.
AddModule(s, p_Filename, p_ModuleName) ==
    LET o == [sh[s] EXCEPT !.m_Modules =
                 Append(@, [data |-> p_Filename, type |-> SourceType_FILE,
                            name |-> p_ModuleName])]
        unreadable == o.m_UseCache /\ disk[p_Filename] = NoSource
    IN /\ \A i \in 1..Len(sh[s].m_Modules) : sh[s].m_Modules[i].name # p_ModuleName
       /\ Configure(s,
                    IF o.m_UseCache /\ ~unreadable
                    THEN [o EXCEPT !.m_Hash =
                             ModuleHashed(@, disk[p_Filename], "file", p_ModuleName)]
                    ELSE o,
                    "addModule", unreadable)

AddModuleString(s, p_Source, p_ModuleName) ==
    LET o == [sh[s] EXCEPT !.m_Modules =
                 Append(@, [data |-> p_Source, type |-> SourceType_STRING,
                            name |-> p_ModuleName])]
    IN /\ \A i \in 1..Len(sh[s].m_Modules) : sh[s].m_Modules[i].name # p_ModuleName
       /\ Configure(s,
                    IF o.m_UseCache
                    THEN [o EXCEPT !.m_Hash = ModuleHashed(@, p_Source, "str", p_ModuleName)]
                    ELSE o,
                    "addModuleString", FALSE)

Compile(s, p_ForceCompile, bk) ==
    /\ ~dead
    /\ Commit(s, compile(World(s), p_ForceCompile, bk), "compile", <<p_ForceCompile>>)

GetSpirvForStage(s, p_Stage, bk) ==
    /\ ~dead
    /\ Commit(s, getSpirvForStage(World(s), p_Stage, bk), "getSpirvForStage", <<p_Stage>>)

GetSpirvFromName(s, p_Name, bk) ==
    /\ ~dead
    /\ Commit(s, getSpirvFromName(World(s), p_Name, bk), "getSpirvFromName", <<p_Name>>)

\* reset(p_Shader): the object is destroyed and a new one takes its place.
Reset(s) ==
    LET w == reset(World(s))
    IN /\ ~dead
       /\ sh' = [sh EXCEPT ![s] = w.o]
       /\ heap' = w.heap
       /\ lastOp' = Op("reset", s, <<>>, w, FALSE)
       /\ UNCHANGED <<s_SlangSessions, fs, disk, opCount, dead, pb, pbOp, pbCount, thr, shaderHash, shaderHashOp, saves>>

\* VulkanShader dst(std::move(src)): dst is declared by this step, so it is an object
\* no call was made on yet.
MoveConstruct(src, dst) ==
    /\ ~dead
    /\ src # dst
    /\ opCount[dst] = 0 /\ sh[dst] = InitialShaders[dst]
    /\ opCount[src] > 0
    /\ sh' = [sh EXCEPT ![dst] = MoveConstructed(sh[src]), ![src] = MovedFrom(sh[src])]
    /\ opCount' = [opCount EXCEPT ![dst] = 1]
    /\ lastOp' = Op("move", dst, <<src>>, World(dst), FALSE)
    /\ UNCHANGED <<s_SlangSessions, fs, disk, dead, pb, pbOp, pbCount, heap, thr, shaderHash, shaderHashOp, saves>>

(***************************************************************************)
(* buildSession run by several threads, each with its own worker identity, *)
(* one step per access to s_SlangSessions.  The map has no lock.  The      *)
(* insertion of line 619 is not atomic: another thread's access to the map *)
(* while it is under way is a data race, whose outcome is any of: nothing  *)
(* goes wrong, the entry being inserted is lost, the process dies.         *)
(***************************************************************************)
Workers == {1, 2}

InitialThreads ==
    [t \in Workers |-> [pc |-> "idle", calls |-> 0, made |-> 0,
                        l_SlangGlobalSession |-> NullHandle, lost |-> FALSE]]

RaceOutcomes == {"benign", "lost", "crash"}

\* Some other thread is in the middle of its insertion.
Racing(t) == \E u \in Workers \ {t} : thr[u].pc = "inserting"

\* An access of thread t to the map with the outcome of the race, if there is one:
\* nextThr and nextMap are thr and the map as the access leaves them when nothing goes
\* wrong.
Access(t, outcome, nextThr, nextMap) ==
    /\ ~dead
    /\ dead' = (outcome = "crash")
    /\ thr' = IF outcome = "lost"
              THEN [u \in Workers |->
                       IF u # t /\ thr[u].pc = "inserting"
                       THEN [nextThr[u] EXCEPT !.lost = TRUE] ELSE nextThr[u]]
              ELSE nextThr
    /\ s_SlangSessions' = nextMap
    /\ UNCHANGED <<sh, fs, disk, lastOp, opCount, pb, pbOp, pbCount, heap, shaderHash, shaderHashOp, saves>>

\* compile() is called on a shader of worker t: buildSession begins.
CallBuildSession(t) ==
    /\ ~dead
    /\ thr[t].pc = "done" \/ thr[t].pc = "idle"
    /\ thr[t].calls < MaxSteps
    /\ thr' = [thr EXCEPT ![t].pc = "contains", ![t].calls = @ + 1,
                          ![t].l_SlangGlobalSession = NullHandle]
    /\ UNCHANGED <<sh, s_SlangSessions, fs, disk, lastOp, opCount, dead, pb, pbOp,
                   pbCount, heap, shaderHash, shaderHashOp, saves>>

\* if (!s_SlangSessions.contains(p_CompilationThread))
Contains(t, outcome) ==
    /\ thr[t].pc = "contains"
    /\ outcome # "benign" => Racing(t)
    /\ Access(t, outcome,
              [thr EXCEPT ![t].pc = IF t \in DOMAIN s_SlangSessions
                                    THEN "lookup" ELSE "create"],
              s_SlangSessions)

\* slang::createGlobalSession(&l_SlangGlobalSession)
CreateGlobalSession(t) ==
    /\ ~dead
    /\ thr[t].pc = "create"
    /\ thr' = [thr EXCEPT ![t].pc = "insert", ![t].made = @ + 1,
                          ![t].l_SlangGlobalSession = GlobalSession(t, thr[t].made + 1)]
    /\ UNCHANGED <<sh, s_SlangSessions, fs, disk, lastOp, opCount, dead, pb, pbOp,
                   pbCount, heap, shaderHash, shaderHashOp, saves>>

\* s_SlangSessions[p_CompilationThread] = l_SlangGlobalSession; the insertion begins
InsertBegin(t, outcome) ==
    /\ thr[t].pc = "insert"
    /\ outcome # "benign" => Racing(t)
    /\ Access(t, outcome, [thr EXCEPT ![t].pc = "inserting"], s_SlangSessions)

\* ... and ends
InsertEnd(t) ==
    /\ ~dead
    /\ thr[t].pc = "inserting"
    /\ thr' = [thr EXCEPT ![t].pc = "lookup", ![t].lost = FALSE]
    /\ s_SlangSessions' = IF thr[t].lost THEN s_SlangSessions
                          ELSE Inserted(s_SlangSessions, t, thr[t].l_SlangGlobalSession)
    /\ UNCHANGED <<sh, fs, disk, lastOp, opCount, dead, pb, pbOp, pbCount, heap, shaderHash, shaderHashOp, saves>>

\* s_SlangSessions[p_CompilationThread]->findProfile(...) and ->createSession(...):
\* operator[] inserts a null pointer for a key that is not there, and the call through
\* a null pointer kills the process or returns.
Lookup(t, outcome, ub) ==
    LET present == t \in DOMAIN s_SlangSessions
        null == IF present THEN IsNull(s_SlangSessions[t]) ELSE TRUE
    IN /\ thr[t].pc = "lookup"
       /\ outcome # "benign" => Racing(t)
       /\ ub = "crash" => null
       /\ Access(t, IF null /\ ub = "crash" THEN "crash" ELSE outcome,
                 [thr EXCEPT ![t].pc = "done"],
                 IF present THEN s_SlangSessions
                 ELSE Inserted(s_SlangSessions, t, NullHandle))

(***************************************************************************)
(* A ShaderHash of its own: addString, addMacro and getHash, one action    *)
(* each.  getHash is const and writes the mutable m_HashValue.             *)
(***************************************************************************)
HashOp(op, arg, ret) == [op |-> op, arg |-> arg, ret |-> ret]

NoHashOp == HashOp("start", <<>>, ZeroHash)

ShaderHash_addString(p_Content) ==
    /\ ~dead
    /\ Len(shaderHash.m_Data) < MaxContents
    /\ shaderHash' = addString(shaderHash, p_Content)
    /\ shaderHashOp' = HashOp("addString", <<p_Content>>, ZeroHash)
    /\ UNCHANGED <<sh, s_SlangSessions, fs, disk, lastOp, opCount, dead, pb, pbOp,
                   pbCount, heap, thr, saves>>

\* l_File.is_open() fails.
Unreadable(p_File) == IF p_File \in DOMAIN disk THEN disk[p_File] = NoSource ELSE TRUE

\* addFile: the whole content of the file is one string; a file that cannot be opened
\* makes it throw before it touches m_Data.
ShaderHash_addFile(p_File) ==
    /\ ~dead
    /\ Len(shaderHash.m_Data) < MaxContents
    /\ shaderHash' = IF Unreadable(p_File) THEN shaderHash
                     ELSE addString(shaderHash, disk[p_File])
    /\ shaderHashOp' = HashOp("addFile", <<p_File>>,
                              IF Unreadable(p_File) THEN <<"std::runtime_error">>
                              ELSE ZeroHash)
    /\ UNCHANGED <<sh, s_SlangSessions, fs, disk, lastOp, opCount, dead, pb, pbOp,
                   pbCount, heap, thr, saves>>

ShaderHash_addMacro(p_Name, p_Value) ==
    /\ ~dead
    /\ Len(shaderHash.m_Data) < MaxContents
    /\ shaderHash' = addMacro(shaderHash, p_Name, p_Value)
    /\ shaderHashOp' = HashOp("addMacro", <<p_Name, p_Value>>, ZeroHash)
    /\ UNCHANGED <<sh, s_SlangSessions, fs, disk, lastOp, opCount, dead, pb, pbOp,
                   pbCount, heap, thr, saves>>

ShaderHash_getHash ==
    /\ ~dead
    /\ shaderHash' = getHash(shaderHash)
    /\ shaderHashOp' = HashOp("getHash", <<>>, shaderHash'.m_HashValue)
    /\ UNCHANGED <<sh, s_SlangSessions, fs, disk, lastOp, opCount, dead, pb, pbOp,
                   pbCount, heap, thr, saves>>

(***************************************************************************)
(* Two saveCodeCache calls at once, one per worker thread, each on its own *)
(* VulkanShader with the same m_HashFile.  A file is a numbered object of  *)
(* the file system: a path names it, an open stream keeps writing to it    *)
(* whatever path names it by then.                                         *)
(***************************************************************************)
NoObject == 0

InitialSaves ==
    [files |-> <<>>,
     path |-> [p \in FsPaths |-> NoObject],
     th |-> [t \in Workers |-> [pc |-> "idle", calls |-> 0, file |-> NoObject, pos |-> 0,
                                threw |-> FALSE]]]

(***************************************************************************)
(* The environment: the files on disk change before the shaders named in   *)
(* "before" are first compiled.                                            *)
(***************************************************************************)
EnvOp(op) == [op |-> op, s |-> "", arg |-> <<>>, ret |-> <<>>, calls |-> <<>>, threw |-> FALSE]

WriteSourceFile(content, before) ==
    /\ ~dead
    /\ \A s \in before : opCount[s] = 0
    /\ disk[SourceFile] # content
    /\ disk' = [disk EXCEPT ![SourceFile] = content]
    /\ lastOp' = EnvOp("writeSourceFile")
    /\ UNCHANGED <<sh, s_SlangSessions, fs, opCount, dead, pb, pbOp, pbCount, heap, thr, shaderHash, shaderHashOp, saves>>

WriteCacheFile(file, before) ==
    /\ ~dead
    /\ \A s \in before : opCount[s] = 0
    /\ fs[CacheFile] # file
    /\ fs' = [fs EXCEPT ![CacheFile] = file]
    /\ lastOp' = EnvOp("writeCacheFile")
    /\ UNCHANGED <<sh, s_SlangSessions, disk, opCount, dead, pb, pbOp, pbCount, heap, thr, shaderHash, shaderHashOp, saves>>

Init ==
    /\ sh = InitialShaders
    /\ s_SlangSessions = NoSessions
    /\ fs = [p \in FsPaths |-> NoFile]
    /\ disk = [p \in {SourceFile} |-> "vs"]
    /\ lastOp = EnvOp("start")
    /\ opCount = [s \in Shaders |-> 0]
    /\ dead = FALSE
    /\ pb = InitialBuilders
    /\ pbOp = NoBuilderOp
    /\ pbCount = [b \in Builders |-> 0]
    /\ heap = EmptyHeap
    /\ thr = InitialThreads
    /\ shaderHash = NewShaderHash
    /\ shaderHashOp = NoHashOp
    /\ saves = InitialSaves

(***************************************************************************)
(* Spec: one VulkanShader, every backend outcome, foreign cache files.     *)
(***************************************************************************)
Faults ==
    {"none", "ctx", "sess", "ep", "link", "code1", "code2",
     "killOpen", "killHeader", "killCount", "killRename"}

\* ub: what a call through a null handle does (undefined behaviour): the process
\* dies, or the call returns as a failed call.
BackendOutcomes ==
    [fault : Faults, ub : {"garbage"}] \cup [fault : {"none", "ctx", "sess", "link"}, ub : {"crash"}]

ModuleChoices == {<<"vs", "m1">>, <<"bad", "m2">>}

StaleRecord ==
    [stage |-> VK_SHADER_STAGE_VERTEX_BIT, name |-> "vsMain",
     spirv |-> <<[src |-> "old", ep |-> "vsMain", opt |-> FALSE, macros |-> <<>>]>>]

\* Files another process may have left at the cache path of shader s.
ForeignFiles(s) ==
    LET key == ContentKey(getHash(sh[s].m_Hash).m_HashValue, sh[s].m_Optimize)
    IN {NoFile,
        FileOf(WriteCache(key, <<>>)),
        FileOf(WriteCache(key, <<StaleRecord>>))}

Next ==
    \/ EnableCache("A", CacheFile)
    \/ AddModule("A", SourceFile, "m3")
    \/ \E m \in ModuleChoices : AddModuleString("A", m[1], m[2])
    \/ \E f \in BOOLEAN, bk \in BackendOutcomes : Compile("A", f, bk)
    \/ \E g \in {VK_SHADER_STAGE_VERTEX_BIT, VK_SHADER_STAGE_FRAGMENT_BIT}, bk \in BackendOutcomes :
          GetSpirvForStage("A", g, bk)
    \/ \E n \in {"vsMain", "fsA"}, bk \in BackendOutcomes : GetSpirvFromName("A", n, bk)
    \/ \E c \in {"vs", NoSource} : WriteSourceFile(c, {"A"})
    \/ \E f \in ForeignFiles("A") : WriteCacheFile(f, {"A"})

Spec == Init /\ [][Next]_vars

(***************************************************************************)
(* SpecRT: shader A is configured and compiled, then a second shader B is  *)
(* configured and compiled against the cache file A left.                  *)
(***************************************************************************)
NoFault == [fault |-> "none", ub |-> "garbage"]

RTOutcomesA == {NoFault} \cup [fault : {"link"}, ub : {"garbage", "crash"}]

RTModulesA == {<<"vs", "m1">>, <<"fs2", "m2">>}

RTModulesB == RTModulesA \cup {<<"fs2", "m1">>}

RTExpectations == {<<{VK_SHADER_STAGE_VERTEX_BIT}, <<>>>>, <<{}, <<"fsB">>>>}

RTOptions == {<<TRUE, MacroD1>>, <<FALSE, MacroD2>>}

NextRT ==
    \/ EnableCache("A", CacheFile)
    \/ \E m \in RTModulesA : AddModuleString("A", m[1], m[2])
    \/ opCount["B"] = 0 /\ \E f \in BOOLEAN, bk \in RTOutcomesA : Compile("A", f, bk)
    \/ opCount["A"] > 0 /\ \E o \in RTOptions : Reinit("B", 1, o[1], o[2])
    \/ opCount["A"] > 0 /\ EnableCache("B", CacheFile)
    \/ opCount["A"] > 0 /\ \E e \in RTExpectations : SetExpectedStages("B", e[1], e[2])
    \/ opCount["A"] > 0 /\ \E m \in RTModulesB : AddModuleString("B", m[1], m[2])
    \/ opCount["A"] > 0 /\ \E f \in BOOLEAN : Compile("B", f, NoFault)

SpecRT == Init /\ [][NextRT]_vars

(***************************************************************************)
(* Vocabulary of the properties.                                           *)
(***************************************************************************)
HasEvent(calls, fns) == \E i \in 1..Len(calls) : calls[i].fn \in fns

\* The handler that made the last step ran on shader s and has returned.
Returned(op, s) == lastOp.op = op /\ lastOp.s = s /\ ~dead

\* The backend operations compile() makes on the session: module loads and the link.
SessionUses == {"loadModuleFromSourceString", "createCompositeComponentType"}

\* The failures of a live compile: session, file, module, entry point, link, extraction.
BackendFailures ==
    {"fail:session", "fail:open", "fail:load", "fail:entry", "fail:link", "fail:code"}

NotReadyEvent == Event("fail:notready", "Shader compilation not finished", FALSE)

ModuleSource(m, d) == IF m.type = SourceType_FILE THEN d[m.data] ELSE m.data

\* The entry points the module list defines, in link order.
RECURSIVE DeclaredEntryPoints(_, _)
DeclaredEntryPoints(mods, d) ==
    IF mods = <<>> THEN <<>>
    ELSE LET src == ModuleSource(Head(mods), d)
             eps == EntryPointsOf(src)
         IN [i \in 1..Len(eps) |-> [stage |-> eps[i].stage, name |-> eps[i].name, src |-> src]]
            \o DeclaredEntryPoints(Tail(mods), d)

\* The binary of the first entry point of stage p_Stage that shader o's modules define.
StageBinary(o, d, p_Stage) ==
    LET eps == DeclaredEntryPoints(o.m_Modules, d)
        OfStage(e) == e.stage = getSlangStageFromVkStage(p_Stage)
        e == eps[FirstIndex(eps, OfStage)]
    IN CodeOf([src |-> e.src, name |-> e.name, opt |-> o.m_Optimize, macros |-> o.m_Macros])

DefinesStage(o, d, p_Stage) ==
    \E i \in 1..Len(DeclaredEntryPoints(o.m_Modules, d)) :
        DeclaredEntryPoints(o.m_Modules, d)[i].stage = getSlangStageFromVkStage(p_Stage)

HasRecordOfStage(o, p_Stage) ==
    \E i \in 1..Len(o.m_CachedCodes) : o.m_CachedCodes[i].stage = p_Stage

\* compile() on shader s would find the cache file valid and complete.
CacheAccepted(s) ==
    LET h == getHash(sh[s].m_Hash)
    IN /\ sh[s].m_UseCache
       /\ tryLoadCachedCode([World(s) EXCEPT !.o.m_Hash = h],
                            ContentKey(h.m_HashValue, sh[s].m_Optimize)).hit

\* A file holds a whole header, a count and exactly that many whole records.
CompleteFile(file) ==
    \/ ~file.exists
    \/ /\ Len(file.data) >= 2
       /\ file.data[2] \in Nat
       /\ Len(file.data) = 2 + 5 * file.data[2]
       /\ file.data = WriteCache(file.data[1].contentHash,
                                 ReadRecords(file.data, 3, file.data[2]))

\* B made its first call, an unforced compile(), after A compiled live and saved the
\* cache, and both were configured with the same modules, macros, optimization flag
\* and cache path.
SameInputs(a, b) ==
    /\ a.m_UseCache /\ b.m_UseCache /\ a.m_HashFile = b.m_HashFile
    /\ a.m_Modules = b.m_Modules
    /\ a.m_Macros = b.m_Macros
    /\ a.m_Optimize = b.m_Optimize

FirstCompileOfB ==
    /\ Returned("compile", "B") /\ lastOp.arg = <<FALSE>> /\ opCount["B"] = 1
    /\ sh["A"].m_UseCache /\ sh["A"].m_Result.status = COMPILED

\* A's compile recorded no failure, and B made the configuration calls in A's order.
RoundTripSetup ==
    /\ FirstCompileOfB
    /\ SameInputs(sh["A"], sh["B"])
    /\ sh["A"].m_Result.error = ""
    /\ sh["A"].m_Hash.m_Data = sh["B"].m_Hash.m_Data

\* B is CACHED without a session and returns, for every entry point of A's program,
\* by stage and by name, the words A returns.
RoundTripResult ==
    /\ sh["B"].m_Result.status = CACHED
    /\ lastOp.calls = <<>>
    /\ IsNull(sh["B"].m_SlangSession)
    /\ \A i \in 1..Len(sh["A"].m_SlangProgram.eps) :
          LET ep == sh["A"].m_SlangProgram.eps[i]
              l_Stage == getVkStageFromSlangStage(ep.stage)
          IN /\ getSpirvForStage(World("B"), l_Stage, NoFault).ret
                    = getSpirvForStage(World("A"), l_Stage, NoFault).ret
             /\ getSpirvFromName(World("B"), ep.name, NoFault).ret
                    = getSpirvFromName(World("A"), ep.name, NoFault).ret
             /\ getSpirvForStage(World("B"), l_Stage, NoFault).ret # <<>>
             /\ getSpirvFromName(World("B"), ep.name, NoFault).ret # <<>>

C2_InvalidationBySource ==
    (/\ FirstCompileOfB
     /\ sh["B"].m_UseCache /\ sh["B"].m_HashFile = sh["A"].m_HashFile
     /\ \/ sh["B"].m_Modules # sh["A"].m_Modules
        \/ sh["B"].m_Optimize # sh["A"].m_Optimize)
    => sh["B"].m_Result.status # CACHED

\* C3: when B is constructed with a macro whose value differs from A's, all modules and
\* options being equal and every module fingerprinted, B's compile() does not end CACHED.
C3_InvalidationByMacro ==
    (/\ FirstCompileOfB
     /\ sh["B"].m_UseCache /\ sh["B"].m_HashFile = sh["A"].m_HashFile
     /\ sh["B"].m_Modules = sh["A"].m_Modules
     /\ sh["B"].m_Optimize = sh["A"].m_Optimize
     /\ sh["B"].m_Hash.m_Data = sh["A"].m_Hash.m_Data
     /\ Len(sh["B"].m_Modules) > 0
     /\ Len(sh["B"].m_Hash.m_Data) = 3 * Len(sh["B"].m_Modules)
     /\ sh["B"].m_Macros # sh["A"].m_Macros)
    => sh["B"].m_Result.status # CACHED

C5_PartialCacheRepair ==
    [][\A s \in Shaders :
          (/\ lastOp'.op = "getSpirvForStage" /\ lastOp'.s = s /\ ~dead'
           /\ sh[s].m_Result.status = CACHED
           /\ ~HasRecordOfStage(sh[s], lastOp'.arg[1])
           /\ ~HasEvent(lastOp'.calls, BackendFailures)
           /\ DefinesStage(sh[s], disk, lastOp'.arg[1]))
          => /\ HasEvent(lastOp'.calls, {"createSession"})
             /\ HasEvent(lastOp'.calls, {"createCompositeComponentType"})
             /\ lastOp'.ret = StageBinary(sh[s], disk, lastOp'.arg[1])
             /\ sh'[s].m_Result.status = COMPILED
             /\ ~HasEvent(lastOp'.calls, {"fail:notfound", "fail:notready"})]_vars

\* C5 witness: a getSpirvForStage call recompiled the shader and returned code.
C5_Witness ==
    /\ Returned("getSpirvForStage", "A")
    /\ HasEvent(lastOp.calls, {"createCompositeComponentType"})
    /\ sh["A"].m_Result.status = COMPILED
    /\ lastOp.ret = StageBinary(sh["A"], disk, VK_SHADER_STAGE_VERTEX_BIT)

(***************************************************************************)
(* C6  Status state machine.                                               *)
(***************************************************************************)
\* C6 (as stated): the status leaves NOT_READY only to CACHED, FAILED or COMPILED and
\* afterwards changes only from CACHED to COMPILED or to FAILED.
C6_StatusMachineAsStated ==
    [][\A s \in Shaders :
          ~dead' =>
             \/ sh'[s].m_Result.status = sh[s].m_Result.status
             \/ /\ sh[s].m_Result.status = NOT_READY
                /\ sh'[s].m_Result.status \in {CACHED, FAILED, COMPILED}
             \/ /\ sh[s].m_Result.status = CACHED
                /\ sh'[s].m_Result.status \in {COMPILED, FAILED}]_vars

\* C6 (amended): the status never returns to NOT_READY; getSpirvForStage and
\* getSpirvFromName leave it unchanged, set it to FAILED, or take CACHED to COMPILED;
\* compile(force) ends CACHED exactly when force is false and the cache file is
\* accepted, whatever the status was (so CACHED can follow COMPILED and FAILED).
C6_StatusMachine ==
    [][\A s \in Shaders :
          (~dead' /\ lastOp'.s = s) =>
             /\ sh[s].m_Result.status # NOT_READY => sh'[s].m_Result.status # NOT_READY
             /\ lastOp'.op \in {"compile", "getSpirvForStage", "getSpirvFromName"} =>
                   sh'[s].m_Result.status # NOT_READY
             /\ lastOp'.op \in {"getSpirvForStage", "getSpirvFromName"} =>
                   \/ sh'[s].m_Result.status = sh[s].m_Result.status
                   \/ sh'[s].m_Result.status = FAILED
                   \/ sh[s].m_Result.status = CACHED /\ sh'[s].m_Result.status = COMPILED
             /\ lastOp'.op = "compile" =>
                   (sh'[s].m_Result.status = CACHED
                       <=> (lastOp'.arg = <<FALSE>> /\ CacheAccepted(s)))]_vars

\* C6 witness: compile() ended CACHED on an object that holds a linked program, that is,
\* one that was COMPILED before.
C6_Witness ==
    /\ Returned("compile", "A")
    /\ sh["A"].m_Result.status = CACHED
    /\ ~IsNull(sh["A"].m_SlangProgram)

(***************************************************************************)
(* C7, C8, C9  Failures of compile().                                      *)
(***************************************************************************)
\* C7: a compile() in which a module failed to load, an entry point could not be
\* obtained or the link failed ends FAILED with a non-empty error; it ends COMPILED
\* only if none of these happened.
C7_FailureReported ==
    \A s \in Shaders :
       (Returned("compile", s)
        /\ HasEvent(lastOp.calls, {"fail:open", "fail:load", "fail:entry", "fail:link"}))
       => /\ sh[s].m_Result.status = FAILED
          /\ sh[s].m_Result.error # ""

\* C8: after the first module failure of a compile() call (the session was created),
\* no later module is handed to the backend, no link is attempted and the stored
\* error is the message of that first failure.
C8_ShortCircuit ==
    \A s \in Shaders :
       LET calls == lastOp.calls
           IsFailure(e) == e.fn \in {"fail:open", "fail:load", "fail:entry"}
           first == FirstIndex(calls, IsFailure)
       IN (Returned("compile", s) /\ ~HasEvent(calls, {"fail:session"}) /\ first # 0)
          => /\ \A j \in (first + 1)..Len(calls) : calls[j].fn \notin SessionUses
             /\ sh[s].m_Result.error = calls[first].arg

\* C9: a compile() in which the shared context or the session could not be created
\* ends FAILED and makes no module load and no link.
C9_SessionFailure ==
    \A s \in Shaders :
       (lastOp.op = "compile" /\ lastOp.s = s /\ HasEvent(lastOp.calls, {"fail:session"}))
       => /\ ~dead
          /\ sh[s].m_Result.status = FAILED
          /\ ~HasEvent(lastOp.calls, SessionUses)

(***************************************************************************)
(* C10  Not ready.                                                         *)
(***************************************************************************)
\* C10: getSpirvForStage and getSpirvFromName called in status NOT_READY or FAILED
\* record the not-ready failure, return no code and do nothing else: no backend call,
\* no cached record returned, no change to the object but m_Result, none to the files.
C10_NotReady ==
    [][\A s \in Shaders :
          (/\ lastOp'.op \in {"getSpirvForStage", "getSpirvFromName"} /\ lastOp'.s = s
           /\ sh[s].m_Result.status \in {NOT_READY, FAILED})
          => /\ lastOp'.ret = <<>>
             /\ lastOp'.calls = <<NotReadyEvent>>
             /\ sh'[s] = [sh[s] EXCEPT !.m_Result =
                             [status |-> FAILED, error |-> NotReadyEvent.arg]]
             /\ UNCHANGED <<s_SlangSessions, fs, disk, dead>>]_vars

\* C10 witness: the call was refused although a loaded record has the requested stage.
C10_Witness ==
    /\ Returned("getSpirvForStage", "A")
    /\ lastOp.calls = <<NotReadyEvent>>
    /\ HasRecordOfStage(sh["A"], lastOp.arg[1])

(***************************************************************************)
(* C11  Entry point not found.                                             *)
(***************************************************************************)
\* C11: getSpirvForStage that finds no entry point of the stage in the linked program
\* returns nothing and ends FAILED, and whatever getSpirvFromName(n) returns is the
\* binary of the entry point named n, never that of another entry point.
C11_EntryPointNotFound ==
    \A s \in Shaders :
       /\ (Returned("getSpirvForStage", s) /\ HasEvent(lastOp.calls, {"fail:notfound"}))
          => (lastOp.ret = <<>> /\ sh[s].m_Result.status = FAILED)
       /\ Returned("getSpirvFromName", s)
          => \A i \in 1..Len(lastOp.ret) : lastOp.ret[i].ep = lastOp.arg[1]

(***************************************************************************)
(* C12  A rejected cache is a miss.                                        *)
(***************************************************************************)
\* C12: a compile() that finds a cache file and rejects it leaves the object and the
\* cache path exactly as the same compile() would with the cache file absent.
C12_RejectedCacheIsMiss ==
    [][(/\ lastOp'.op = "compile" /\ lastOp'.s = "B" /\ ~dead'
        /\ sh["B"].m_UseCache
        /\ fs[sh["B"].m_HashFile].exists
        /\ ~CacheAccepted("B"))
       => LET absent == [World("B") EXCEPT !.fs[sh["B"].m_HashFile] = NoFile]
              w == compile(absent, lastOp'.arg[1], NoFault)
          IN /\ sh'["B"] = w.o
             /\ fs'[CacheFile] = w.fs[CacheFile]]_vars

(***************************************************************************)
(* SpecSR: one VulkanShader whose cache path holds a damaged or foreign     *)
(* file: every proper prefix of a one-record cache file, whole files whose *)
(* header differs in any of magic, version, profile, content hash, and     *)
(* whole files of the right key with no record or one vertex record.       *)
(***************************************************************************)
HeaderVariants(s) ==
    LET key == ContentKey(getHash(sh[s].m_Hash).m_HashValue, sh[s].m_Optimize)
        Header(m, v, p, h) ==
            [magic |-> IF m THEN CACHE_MAGIC ELSE 0,
             version |-> IF v THEN CACHE_VERSION ELSE CACHE_VERSION + 1,
             slangVersion |-> SlangBuildTag,
             spirvProfile |-> IF p THEN SPIRV_PROFILE ELSE "spirv_1_3",
             contentHash |-> IF h THEN key ELSE <<"other">>]
    IN {FileOf(<<Header(m, v, p, h), 1>> \o WriteRecord(StaleRecord)) :
           m \in BOOLEAN, v \in BOOLEAN, p \in BOOLEAN, h \in BOOLEAN}

TruncatedFiles(s) ==
    LET key == ContentKey(getHash(sh[s].m_Hash).m_HashValue, sh[s].m_Optimize)
        full == WriteCache(key, <<StaleRecord>>)
    IN {FileOf(SubSeq(full, 1, n)) : n \in 0..(Len(full) - 1)}

\* The cache stream of saveCodeCache works, cannot be opened, or fails at a write.
StreamOutcomes ==
    [fault : {"none", "failOpen", "failHeader", "failCount", "failRecord"}, ub : {"garbage"}]

NextSR ==
    \/ EnableCache("A", CacheFile)
    \/ AddModuleString("A", "vs", "m1")
    \/ \E e \in RTExpectations : SetExpectedStages("A", e[1], e[2])
    \/ \E f \in TruncatedFiles("A") \cup HeaderVariants("A") \cup ForeignFiles("A") :
          WriteCacheFile(f, {})
    \/ \E f \in BOOLEAN, bk \in StreamOutcomes : Compile("A", f, bk)
    \/ GetSpirvForStage("A", VK_SHADER_STAGE_VERTEX_BIT, NoFault)
    \/ GetSpirvFromName("A", "vsMain", NoFault)

SpecSR == Init /\ [][NextSR]_vars

(***************************************************************************)
(* SpecHV: one VulkanShader whose cache path is empty or holds a whole     *)
(* file with any combination of right and wrong header fields; the save    *)
(* stream may fail as in SpecSR.                                           *)
(***************************************************************************)
NextHV ==
    \/ EnableCache("A", CacheFile)
    \/ AddModuleString("A", "vs", "m1")
    \/ \E f \in HeaderVariants("A") : WriteCacheFile(f, {})
    \/ \E f \in BOOLEAN, bk \in StreamOutcomes : Compile("A", f, bk)

SpecHV == Init /\ [][NextHV]_vars

\* What tryLoadCachedCode does on shader s with the key compile() computes.
LoadAttempt(s) ==
    LET h == getHash(sh[s].m_Hash)
    IN tryLoadCachedCode([World(s) EXCEPT !.o.m_Hash = h],
                         ContentKey(h.m_HashValue, sh[s].m_Optimize))

(***************************************************************************)
(* C13  Short read.                                                        *)
(***************************************************************************)
\* C13: when the cache file ends before its header, count or a declared record is
\* whole, the load fails: compile() does not end CACHED and the load leaves no
\* record in m_CachedCodes.
C13_ShortReadIsLoadFailure ==
    [][(/\ lastOp'.op = "compile" /\ lastOp'.s = "A" /\ ~dead'
        /\ sh["A"].m_UseCache
        /\ fs[sh["A"].m_HashFile].exists
        /\ ~CompleteFile(fs[sh["A"].m_HashFile]))
       => /\ ~LoadAttempt("A").hit
          /\ LoadAttempt("A").o.m_CachedCodes = sh["A"].m_CachedCodes
          /\ sh'["A"].m_Result.status # CACHED]_vars

(***************************************************************************)
(* C14  Header validation.                                                 *)
(***************************************************************************)
\* The reason tryLoadCachedCode must give for rejecting a header, "" when it must not.
HeaderVerdict(l_Header, p_HashValue) ==
    IF l_Header.magic # CACHE_MAGIC THEN "log:magic"
    ELSE IF l_Header.version # CACHE_VERSION THEN "log:version"
    ELSE IF l_Header.spirvProfile # SPIRV_PROFILE THEN "log:profile"
    ELSE IF l_Header.contentHash # p_HashValue THEN "log:hash"
    ELSE ""

\* C14: on a cache file whose whole header differs in magic, version, profile or
\* content hash, tryLoadCachedCode reports a miss, retains no record, and names as
\* the reason the first differing field in the order magic, version, profile, hash;
\* an absent file is a silent miss; no miss sets an error, and compile() then does
\* not end CACHED.
C14_HeaderValidation ==
    [][(/\ lastOp'.op = "compile" /\ lastOp'.s = "A" /\ ~dead'
        /\ sh["A"].m_UseCache
        /\ (fs[sh["A"].m_HashFile].exists => Len(fs[sh["A"].m_HashFile].data) >= 1))
       => LET l_File == fs[sh["A"].m_HashFile]
              key == ContentKey(getHash(sh["A"].m_Hash).m_HashValue, sh["A"].m_Optimize)
              verdict == IF l_File.exists THEN HeaderVerdict(l_File.data[1], key) ELSE ""
              load == LoadAttempt("A")
          IN (~l_File.exists \/ verdict # "")
             => /\ ~load.hit
                /\ load.o.m_CachedCodes = sh["A"].m_CachedCodes
                /\ load.o.m_Result = sh["A"].m_Result
                /\ load.calls = IF l_File.exists
                                THEN <<Event(verdict, sh["A"].m_HashFile, FALSE)>>
                                ELSE <<>>
                /\ SubSeq(lastOp'.calls, 1, Len(load.calls)) = load.calls
                /\ sh'["A"].m_Result.status # CACHED]_vars

\* C14 witness: a file with a wrong version and a wrong content hash was rejected for
\* its version, nothing of it was retained, and the live compile ran.
C14_Witness ==
    /\ Returned("compile", "A")
    /\ lastOp.calls # <<>>
    /\ lastOp.calls[1].fn = "log:version"
    /\ HasEvent(lastOp.calls, {"createSession"})
    /\ ~HasRecordOfStage(sh["A"], VK_SHADER_STAGE_VERTEX_BIT)

(***************************************************************************)
(* C15  Completeness check.                                                *)
(***************************************************************************)
\* The records a whole cache file holds.
RecordsOf(file) == ReadRecords(file.data, 3, ReadItem(file.data, 2, 0))

\* C15: with expected stages or names declared, a whole cache file with a valid header
\* is a hit exactly when the records loaded from it hold every expected stage and
\* every expected name; otherwise compile() does not end CACHED.
C15_CompletenessCheck ==
    [][(/\ lastOp'.op = "compile" /\ lastOp'.s = "A" /\ ~dead'
        /\ sh["A"].m_UseCache
        /\ fs[sh["A"].m_HashFile].exists
        /\ CompleteFile(fs[sh["A"].m_HashFile])
        /\ (sh["A"].m_ExpectedStages # {} \/ sh["A"].m_ExpectedEntryPoints # <<>>)
        /\ HeaderVerdict(fs[sh["A"].m_HashFile].data[1],
                         ContentKey(getHash(sh["A"].m_Hash).m_HashValue,
                                    sh["A"].m_Optimize)) = "")
       => LET complete == Expected(RecordsOf(fs[sh["A"].m_HashFile]),
                                   sh["A"].m_ExpectedStages,
                                   sh["A"].m_ExpectedEntryPoints)
          IN /\ LoadAttempt("A").hit <=> complete
             /\ ~complete => sh'["A"].m_Result.status # CACHED]_vars

(***************************************************************************)
(* C16  A write failure aborts the save.                                   *)
(***************************************************************************)
\* C16: a compile() whose save could not open the temporary file, or had a write of
\* the header, the count or a record fail, leaves the file at the cache path as it was.
C16_WriteFailureAbortsSave ==
    [][(/\ lastOp'.op = "compile" /\ lastOp'.s = "A" /\ ~dead'
        /\ HasEvent(lastOp'.calls, {"ofstream::open", "ofstream::write"}))
       => fs'[CacheFile] = fs[CacheFile]]_vars

(***************************************************************************)
(* The operations of a pipeline builder, one action each.                  *)
(***************************************************************************)
Set(b, o, op) ==
    /\ ~dead
    /\ pbCount[b] < MaxSetterCalls
    /\ pbCount' = [pbCount EXCEPT ![b] = @ + 1]
    /\ pb' = [pb EXCEPT ![b] = o]
    /\ pbOp' = BuilderOp(op, b, "", [value |-> ZeroHash, died |-> FALSE])
    /\ UNCHANGED <<sh, s_SlangSessions, fs, disk, lastOp, opCount, dead, heap, thr, shaderHash, shaderHashOp, saves>>

AddShaderStage(b, p_Shader, p_Entrypoint) ==
    Set(b, addShaderStage(pb[b], p_Shader, p_Entrypoint), "addShaderStage")

ResetShaderStages(b) == Set(b, resetShaderStages(pb[b]), "resetShaderStages")

SetVertexInputState(b, p_State) ==
    Set(b, setVertexInputState(pb[b], p_State), "setVertexInputState")

AddVertexBinding(b, p_Binding, p_RecalculateLocations) ==
    Set(b, addVertexBinding(pb[b], p_Binding, p_RecalculateLocations), "addVertexBinding")

SetInputAssemblyState(b, p_Topology, p_PrimitiveRestartEnable) ==
    Set(b, setInputAssemblyState(pb[b], p_Topology, p_PrimitiveRestartEnable),
        "setInputAssemblyState")

SetInputAssemblyState_Struct(b, p_State) ==
    Set(b, setInputAssemblyState_Struct(pb[b], p_State), "setInputAssemblyState")

SetTessellationState(b, p_PatchControlPoints) ==
    Set(b, setTessellationState(pb[b], p_PatchControlPoints), "setTessellationState")

SetTessellationState_Struct(b, p_State) ==
    Set(b, setTessellationState_Struct(pb[b], p_State), "setTessellationState")

SetViewportState_Counts(b, p_ViewportCount, p_ScissorCount) ==
    Set(b, setViewportState_Counts(pb[b], p_ViewportCount, p_ScissorCount),
        "setViewportState")

SetViewportState_Spans(b, p_Viewports, p_Scissors) ==
    Set(b, setViewportState_Spans(pb[b], p_Viewports, p_Scissors), "setViewportState")

SetViewportState_Struct(b, p_State) ==
    Set(b, setViewportState_Struct(pb[b], p_State), "setViewportState")

SetRasterizationState(b, p_PolygonMode, p_CullMode, p_FrontFace) ==
    Set(b, setRasterizationState(pb[b], p_PolygonMode, p_CullMode, p_FrontFace),
        "setRasterizationState")

SetRasterizationState_Struct(b, p_State) ==
    Set(b, setRasterizationState_Struct(pb[b], p_State), "setRasterizationState")

SetMultisampleState(b, p_RasterizationSamples, p_SampleShadingEnable, p_MinSampleShading) ==
    Set(b, setMultisampleState(pb[b], p_RasterizationSamples, p_SampleShadingEnable,
                               p_MinSampleShading),
        "setMultisampleState")

SetMultisampleState_Struct(b, p_State) ==
    Set(b, setMultisampleState_Struct(pb[b], p_State), "setMultisampleState")

SetDepthStencilState(b, p_DepthTestEnable, p_DepthWriteEnable, p_DepthCompareOp) ==
    Set(b, setDepthStencilState(pb[b], p_DepthTestEnable, p_DepthWriteEnable,
                                p_DepthCompareOp),
        "setDepthStencilState")

SetDepthStencilState_Struct(b, p_State) ==
    Set(b, setDepthStencilState_Struct(pb[b], p_State), "setDepthStencilState")

SetColorBlendState(b, p_LogicOpEnable, p_LogicOp, p_ColorBlendConstants) ==
    Set(b, setColorBlendState(pb[b], p_LogicOpEnable, p_LogicOp, p_ColorBlendConstants),
        "setColorBlendState")

SetColorBlendState_Struct(b, p_State) ==
    Set(b, setColorBlendState_Struct(pb[b], p_State), "setColorBlendState")

AddColorBlendAttachment(b, p_Attachment) ==
    Set(b, addColorBlendAttachment(pb[b], p_Attachment), "addColorBlendAttachment")

SetDynamicState_Span(b, p_DynamicStates) ==
    Set(b, setDynamicState_Span(pb[b], p_DynamicStates), "setDynamicState")

SetDynamicState_Struct(b, p_State) ==
    Set(b, setDynamicState_Struct(pb[b], p_State), "setDynamicState")

\* A process that died in getHash holds no builder any more.
GetHash(b, p_Hash, env) ==
    LET r == VulkanPipelineBuilder_getHash(pb[b], p_Hash, env)
    IN /\ ~dead
       /\ pbOp' = BuilderOp("getHash", b, p_Hash, r)
       /\ dead' = r.died
       /\ pb' = IF r.died THEN InitialBuilders ELSE pb
       /\ UNCHANGED <<sh, s_SlangSessions, fs, disk, lastOp, opCount, pbCount, heap, thr, shaderHash, shaderHashOp, saves>>

(***************************************************************************)
(* Inputs of the pipeline builder.                                         *)
(***************************************************************************)
SubHashes ==
    {"vertexInput", "inputAssembly", "tessellation", "viewport", "rasterization",
     "multisample", "depthStencil", "colorBlend", "dynamicState"}

\* What the nine frames hold where l_Hash lives: zeroes, a leftover in every frame, or
\* a leftover in the first frame only.
StackContents ==
    {[h \in SubHashes |-> ZeroHash],
     [h \in SubHashes |-> <<"stack">>],
     [h \in SubHashes |-> IF h = "vertexInput" THEN <<"stack">> ELSE ZeroHash]}

HashEnvs == [seeds : StackContents, mem : {7}, ub : {"crash", "garbage"}]

DivisorInfo(d) ==
    [sType |-> "PIPELINE_VERTEX_INPUT_DIVISOR_STATE_CREATE_INFO_EXT",
     vertexBindingDivisorCount |-> 1,
     pVertexBindingDivisors |-> <<[binding |-> 0, divisor |-> d]>>]

DomainOriginInfo(d) ==
    [sType |-> "PIPELINE_TESSELLATION_DOMAIN_ORIGIN_STATE_CREATE_INFO", domainOrigin |-> d]

DepthClipControlInfo(d) ==
    [sType |-> "PIPELINE_VIEWPORT_DEPTH_CLIP_CONTROL_CREATE_INFO_EXT", negativeOneToOne |-> d]

ProvokingVertexInfo(d) ==
    [sType |-> "PIPELINE_RASTERIZATION_PROVOKING_VERTEX_STATE_CREATE_INFO_EXT",
     provokingVertexMode |-> d]

CoverageReductionInfo(d) ==
    [sType |-> "PIPELINE_COVERAGE_REDUCTION_STATE_CREATE_INFO_NV", flags |-> 0,
     coverageReductionMode |-> d]

ColorWriteInfo(d) ==
    [sType |-> "PIPELINE_COLOR_WRITE_CREATE_INFO_EXT", attachmentCount |-> 1,
     pColorWriteEnables |-> <<d>>]

\* A record whose type tag no sub-hash has a case for.
RobustnessInfo(d) == [sType |-> "PIPELINE_ROBUSTNESS_CREATE_INFO", storageBuffers |-> d]

\* The chains a caller hangs on a block: none, a recognised record, or a recognised
\* record behind an unrecognised one.
Chains(Info(_)) == {<<>>, <<Info(1)>>, <<RobustnessInfo(1), Info(1)>>}

BindingA ==
    [description |-> [binding |-> 0, stride |-> 16, inputRate |-> 0],
     attributes |-> <<[location |-> 0, binding |-> 0, format |-> 106, offset |-> 0],
                      [location |-> 1, binding |-> 0, format |-> 103, offset |-> 12]>>]

ViewportA == [x |-> 0, y |-> 0, width |-> 64, height |-> 48, minDepth |-> 0, maxDepth |-> 1]

ViewportB == [x |-> 64, y |-> 0, width |-> 64, height |-> 48, minDepth |-> 0, maxDepth |-> 1]

ScissorA == [x |-> 0, y |-> 0, width |-> 64, height |-> 48]

ScissorB == [x |-> 64, y |-> 0, width |-> 64, height |-> 48]

AttachmentA ==
    [blendEnable |-> 0, srcColorBlendFactor |-> 1, dstColorBlendFactor |-> 0,
     colorBlendOp |-> 0, srcAlphaBlendFactor |-> 1, dstAlphaBlendFactor |-> 0,
     alphaBlendOp |-> 0, colorWriteMask |-> 15]

AttachmentB == [AttachmentA EXCEPT !.blendEnable = 1]

VertexInputStates ==
    {[NewPipelineBuilder.m_VertexInputState EXCEPT
         !.sType = "", !.pNext = chain,
         !.vertexBindingDescriptionCount = 1,
         !.pVertexBindingDescriptions = Ptr(<<BindingA.description>>),
         !.vertexAttributeDescriptionCount = 2,
         !.pVertexAttributeDescriptions = Ptr(BindingA.attributes)] :
        chain \in Chains(DivisorInfo)}

InputAssemblyStates ==
    {[NewPipelineBuilder.m_InputAssemblyState EXCEPT
         !.sType = "", !.topology = 1, !.primitiveRestartEnable = r] : r \in {0, 1}}

TessellationStates ==
    {[NewPipelineBuilder.m_TessellationState EXCEPT
         !.sType = "", !.pNext = chain, !.patchControlPoints = 3] :
        chain \in Chains(DomainOriginInfo)}

ViewportStates ==
    {[NewPipelineBuilder.m_ViewportState EXCEPT
         !.sType = "", !.pNext = chain,
         !.viewportCount = 1, !.pViewports = Ptr(<<ViewportA>>),
         !.scissorCount = 1, !.pScissors = Ptr(<<ScissorA>>)] :
        chain \in Chains(DepthClipControlInfo)}

RasterizationStates ==
    {[NewPipelineBuilder.m_RasterizationState EXCEPT
         !.sType = "", !.pNext = chain, !.polygonMode = 1, !.lineWidth = 2] :
        chain \in Chains(ProvokingVertexInfo)}

MultisampleStates ==
    {[NewPipelineBuilder.m_MultisampleState EXCEPT
         !.sType = "", !.pNext = chain, !.rasterizationSamples = 4,
         !.pSampleMask = Ptr(<<15>>)] :
        chain \in Chains(CoverageReductionInfo)}

DepthStencilStates ==
    {[NewPipelineBuilder.m_DepthStencilState EXCEPT
         !.sType = "", !.stencilTestEnable = 1, !.front.compareOp = c] : c \in {3, 7}}

ColorBlendStates ==
    {[NewPipelineBuilder.m_ColorBlendState EXCEPT
         !.sType = "", !.pNext = chain,
         !.attachmentCount = 1, !.pAttachments = Ptr(<<AttachmentA>>)] :
        chain \in Chains(ColorWriteInfo)}

DynamicStates ==
    {[NewPipelineBuilder.m_DynamicState EXCEPT
         !.sType = "", !.dynamicStateCount = Len(d), !.pDynamicStates = Ptr(d)] :
        d \in {<<0>>, <<0, 1>>}}

(***************************************************************************)
(* SpecPB: one pipeline builder, every setter, and getHash.                *)
(***************************************************************************)
NextPB ==
    \/ \E p_Shader \in {1, 2} : AddShaderStage("P", p_Shader, "main")
    \/ ResetShaderStages("P")
    \/ \E st \in VertexInputStates : SetVertexInputState("P", st)
    \/ \E r \in BOOLEAN : AddVertexBinding("P", BindingA, r)
    \/ SetInputAssemblyState("P", 1, 1)
    \/ \E st \in InputAssemblyStates : SetInputAssemblyState_Struct("P", st)
    \/ SetTessellationState("P", 3)
    \/ \E st \in TessellationStates : SetTessellationState_Struct("P", st)
    \/ SetViewportState_Counts("P", 2, 2)
    \/ \E n \in {1, 2} :
          SetViewportState_Spans("P", SubSeq(<<ViewportA, ViewportB>>, 1, n),
                                 SubSeq(<<ScissorA, ScissorB>>, 1, n))
    \/ \E st \in ViewportStates : SetViewportState_Struct("P", st)
    \/ SetRasterizationState("P", 1, 0, 1)
    \/ \E st \in RasterizationStates : SetRasterizationState_Struct("P", st)
    \/ SetMultisampleState("P", 4, 1, 1)
    \/ \E st \in MultisampleStates : SetMultisampleState_Struct("P", st)
    \/ SetDepthStencilState("P", 0, 0, 3)
    \/ \E st \in DepthStencilStates : SetDepthStencilState_Struct("P", st)
    \/ SetColorBlendState("P", 1, 2, <<1, 0, 0, 0>>)
    \/ \E st \in ColorBlendStates : SetColorBlendState_Struct("P", st)
    \/ \E a \in {AttachmentA, AttachmentB} : AddColorBlendAttachment("P", a)
    \/ \E d \in {<<0>>, <<0, 1>>} : SetDynamicState_Span("P", d)
    \/ \E st \in DynamicStates : SetDynamicState_Struct("P", st)
    \/ \E p_Hash \in {"layout1", "layout2"}, env \in HashEnvs : GetHash("P", p_Hash, env)

SpecPB == Init /\ [][NextPB]_vars

(***************************************************************************)
(* SpecCS: builder P is configured with the incremental setters, builder Q *)
(* with the whole-structure setters.                                       *)
(***************************************************************************)
NextCS ==
    \/ AddVertexBinding("P", BindingA, FALSE)
    \/ SetInputAssemblyState("P", 1, 1)
    \/ SetViewportState_Spans("P", <<ViewportA>>, <<ScissorA>>)
    \/ AddColorBlendAttachment("P", AttachmentA)
    \/ \E d \in {<<0>>, <<0, 1>>} : SetDynamicState_Span("P", d)
    \/ \E st \in VertexInputStates : SetVertexInputState("Q", st)
    \/ \E st \in InputAssemblyStates : SetInputAssemblyState_Struct("Q", st)
    \/ \E st \in ViewportStates : SetViewportState_Struct("Q", st)
    \/ \E st \in ColorBlendStates : SetColorBlendState_Struct("Q", st)
    \/ \E st \in DynamicStates : SetDynamicState_Struct("Q", st)
    \/ \E b \in Builders, env \in HashEnvs : GetHash(b, "layout1", env)

SpecCS == Init /\ [][NextCS]_vars

(***************************************************************************)
(* Vocabulary of the claims about the pipeline fingerprint.                *)
(***************************************************************************)
\* The stack holds zeroes: every sub-hash starts from 0.
ZeroedStack == [seeds |-> [h \in SubHashes |-> ZeroHash], mem |-> 0, ub |-> "garbage"]

Fingerprint(o) == VulkanPipelineBuilder_getHash(o, "layout1", ZeroedStack).value

\* The blocks getHash combines for builder o.
Blocks(o) ==
    {"m_VertexInputState", "m_InputAssemblyState", "m_ViewportState",
     "m_RasterizationState", "m_MultisampleState", "m_DepthStencilState",
     "m_ColorBlendState", "m_DynamicState"}
    \cup (IF o.m_TesellationStateEnabled THEN {"m_TessellationState"} ELSE {})

\* The scalar fields of each block's structure, other than its counts.
ScalarFields ==
    [m_VertexInputState |-> {"flags"},
     m_InputAssemblyState |-> {"flags", "topology", "primitiveRestartEnable"},
     m_TessellationState |-> {"flags", "patchControlPoints"},
     m_ViewportState |-> {"flags"},
     m_RasterizationState |->
        {"flags", "depthClampEnable", "rasterizerDiscardEnable", "polygonMode", "cullMode",
         "frontFace", "depthBiasEnable", "depthBiasConstantFactor", "depthBiasClamp",
         "depthBiasSlopeFactor", "lineWidth"},
     m_MultisampleState |->
        {"flags", "rasterizationSamples", "sampleShadingEnable", "minSampleShading",
         "alphaToCoverageEnable", "alphaToOneEnable"},
     m_DepthStencilState |->
        {"flags", "depthTestEnable", "depthWriteEnable", "depthCompareOp",
         "depthBoundsTestEnable", "stencilTestEnable", "minDepthBounds", "maxDepthBounds"},
     m_ColorBlendState |-> {"flags", "logicOpEnable", "logicOp"},
     m_DynamicState |-> {"flags"}]

\* The sub-arrays of structures: block, pointer field, count field.
StructArrays ==
    {<<"m_VertexInputState", "pVertexBindingDescriptions", "vertexBindingDescriptionCount">>,
     <<"m_VertexInputState", "pVertexAttributeDescriptions",
       "vertexAttributeDescriptionCount">>,
     <<"m_ViewportState", "pViewports", "viewportCount">>,
     <<"m_ViewportState", "pScissors", "scissorCount">>,
     <<"m_ColorBlendState", "pAttachments", "attachmentCount">>}

\* The sub-arrays of scalars.
ScalarArrays ==
    {<<"m_DynamicState", "pDynamicStates">>, <<"m_MultisampleState", "pSampleMask">>}

\* The builders that differ from o in exactly one scalar: a field of a block, a field
\* of a stencil face, a blend constant, or a field of one element of a sub-array.
OneFieldVariants(o) ==
    UNION {{[o EXCEPT ![blk][f] = @ + 1] : f \in ScalarFields[blk]} : blk \in Blocks(o)}
    \cup {[o EXCEPT !.m_DepthStencilState[face][StencilOpFields[k]] = @ + 1] :
             face \in {"front", "back"}, k \in 1..Len(StencilOpFields)}
    \cup {[o EXCEPT !.m_ColorBlendState.blendConstants[k] = @ + 1] : k \in 1..4}
    \cup UNION {UNION {{[o EXCEPT ![a[1]][a[2]].data[i][f] = @ + 1] :
                           f \in DOMAIN o[a[1]][a[2]].data[i]} :
                       i \in 1..o[a[1]][a[3]]} :
                a \in StructArrays}
    \cup UNION {{[o EXCEPT ![a[1]][a[2]].data[i] = @ + 1] :
                    i \in 1..Len(o[a[1]][a[2]].data)} :
                a \in ScalarArrays}

\* The builders that differ from o in the order of the first two elements of one
\* sub-array.
ReorderedVariants(o) ==
    {[o EXCEPT ![a[1]][a[2]].data[1] = o[a[1]][a[2]].data[2],
               ![a[1]][a[2]].data[2] = o[a[1]][a[2]].data[1]] :
        a \in {x \in StructArrays \cup ScalarArrays :
                  /\ Len(o[x[1]][x[2]].data) >= 2
                  /\ o[x[1]][x[2]].data[1] # o[x[1]][x[2]].data[2]}}

\* The blocks whose sub-hash looks at the extension chain, with the type tags it
\* has a case for.
RecognisedTags ==
    [m_VertexInputState |-> VertexInputExtensions,
     m_TessellationState |-> TessellationExtensions,
     m_ViewportState |-> ViewportExtensions,
     m_RasterizationState |-> RasterizationExtensions,
     m_MultisampleState |-> MultisampleExtensions,
     m_ColorBlendState |-> ColorBlendExtensions]

\* The same record with one of its data fields changed.
Altered(rec) ==
    CASE rec.sType = "PIPELINE_VERTEX_INPUT_DIVISOR_STATE_CREATE_INFO_EXT" ->
            [rec EXCEPT !.pVertexBindingDivisors[1].divisor = @ + 1]
      [] rec.sType = "PIPELINE_TESSELLATION_DOMAIN_ORIGIN_STATE_CREATE_INFO" ->
            [rec EXCEPT !.domainOrigin = @ + 1]
      [] rec.sType = "PIPELINE_VIEWPORT_DEPTH_CLIP_CONTROL_CREATE_INFO_EXT" ->
            [rec EXCEPT !.negativeOneToOne = @ + 1]
      [] rec.sType = "PIPELINE_RASTERIZATION_PROVOKING_VERTEX_STATE_CREATE_INFO_EXT" ->
            [rec EXCEPT !.provokingVertexMode = @ + 1]
      [] rec.sType = "PIPELINE_COVERAGE_REDUCTION_STATE_CREATE_INFO_NV" ->
            [rec EXCEPT !.coverageReductionMode = @ + 1]
      [] rec.sType = "PIPELINE_COLOR_WRITE_CREATE_INFO_EXT" ->
            [rec EXCEPT !.pColorWriteEnables[1] = @ + 1]
      [] OTHER -> [rec EXCEPT !.storageBuffers = @ + 1]

\* The configuration values of a builder: its blocks with every array cut to its
\* count, its tessellation switch and its shader stages.
Configuration(o) ==
    LET Cut(ptr, count) == IF ptr.null THEN <<>> ELSE SubSeq(ptr.data, 1, count)
    IN [vertexInput |->
           [o.m_VertexInputState EXCEPT
               !.pVertexBindingDescriptions = Cut(@, o.m_VertexInputState.vertexBindingDescriptionCount),
               !.pVertexAttributeDescriptions = Cut(@, o.m_VertexInputState.vertexAttributeDescriptionCount)],
        inputAssembly |-> o.m_InputAssemblyState,
        tessellationEnabled |-> o.m_TesellationStateEnabled,
        tessellation |-> o.m_TessellationState,
        viewport |->
           [o.m_ViewportState EXCEPT
               !.pViewports = Cut(@, o.m_ViewportState.viewportCount),
               !.pScissors = Cut(@, o.m_ViewportState.scissorCount)],
        rasterization |-> o.m_RasterizationState,
        multisample |-> o.m_MultisampleState,
        depthStencil |-> o.m_DepthStencilState,
        colorBlend |->
           [o.m_ColorBlendState EXCEPT
               !.pAttachments = Cut(@, o.m_ColorBlendState.attachmentCount)],
        dynamicState |->
           [o.m_DynamicState EXCEPT
               !.pDynamicStates = Cut(@, o.m_DynamicState.dynamicStateCount)],
        shaderStages |-> o.m_ShaderStages]

(***************************************************************************)
(* C17  Fingerprint determinism.                                           *)
(***************************************************************************)
\* C17: two getHash calls in a row on the same builder with the same layout
\* fingerprint, both returning, return the same value.
C17_FingerprintDeterminism ==
    [][(/\ pbOp.op = "getHash" /\ pbOp'.op = "getHash"
        /\ pbOp'.b = pbOp.b /\ pbOp'.arg = pbOp.arg
        /\ ~pbOp.died /\ ~pbOp'.died)
       => pbOp'.ret = pbOp.ret]_vars

(***************************************************************************)
(* C18  Fingerprint sensitivity.                                           *)
(***************************************************************************)
\* C18: a builder whose arrays are as long as their counts, and any builder that
\* differs from it in exactly one scalar field of a block or of an array element, or in
\* the order of two elements of one array, have different fingerprints.
C18_FingerprintSensitivity ==
    \A b \in Builders :
       ~OutOfBounds(pb[b])
       => \A v \in OneFieldVariants(pb[b]) \cup ReorderedVariants(pb[b]) :
             Fingerprint(v) # Fingerprint(pb[b])

(***************************************************************************)
(* C19  Extension-chain walk.                                              *)
(***************************************************************************)
\* C19: in every block that carries a chain, changing the data of a record at any
\* position changes the fingerprint exactly when the record's type tag is one the
\* block recognises.
C19_ExtensionChainWalk ==
    \A b \in Builders :
       ~OutOfBounds(pb[b])
       => \A blk \in DOMAIN RecognisedTags \cap Blocks(pb[b]) :
             \A i \in 1..Len(pb[b][blk].pNext) :
                LET altered == [pb[b] EXCEPT ![blk].pNext[i] = Altered(@)]
                IN (pb[b][blk].pNext[i].sType \in RecognisedTags[blk])
                   <=> (Fingerprint(altered) # Fingerprint(pb[b]))

(***************************************************************************)
(* C20  Call-sequence independence.                                        *)
(***************************************************************************)
\* C20: getHash on one builder and then on the other, with the same layout
\* fingerprint, returns the same value when the two hold equal configurations with
\* arrays as long as their counts.
C20_CallSequenceIndependence ==
    [][(/\ pbOp.op = "getHash" /\ pbOp'.op = "getHash"
        /\ pbOp'.b # pbOp.b /\ pbOp'.arg = pbOp.arg
        /\ ~pbOp.died /\ ~pbOp'.died
        /\ ~OutOfBounds(pb["P"])
        /\ pbCount["P"] > 0 /\ pbCount["Q"] > 0
        /\ Configuration(pb["P"]) = Configuration(pb["Q"]))
       => pbOp'.ret = pbOp.ret]_vars

(***************************************************************************)
(* SpecOW: the lifetime of the handles.  Shader A is compiled, possibly    *)
(* more than once (forced, or as the fallback of getSpirvForStage over a   *)
(* cache file without records), destroyed by reset, or moved into B.       *)
(***************************************************************************)
OWOutcomes == [fault : {"none", "sess", "link"}, ub : {"garbage"}]

NextOW ==
    \/ EnableCache("A", CacheFile)
    \/ AddModuleString("A", "vs", "m1")
    \/ \E f \in ForeignFiles("A") : WriteCacheFile(f, {"A"})
    \/ \E f \in BOOLEAN, bk \in OWOutcomes : Compile("A", f, bk)
    \/ GetSpirvForStage("A", VK_SHADER_STAGE_VERTEX_BIT, NoFault)
    \/ MoveConstruct("A", "B")
    \/ Compile("B", FALSE, NoFault)
    \/ \E s \in Shaders : Reset(s)

SpecOW == Init /\ [][NextOW]_vars

\* The handles shader object o holds.
Held(o) == {h.id : h \in {o.m_SlangSession, o.m_SlangProgram} \ {NullHandle}}

(***************************************************************************)
(* C21  Exclusive ownership.                                               *)
(***************************************************************************)
\* C21: once every object has been destroyed (or holds nothing) no session and no
\* program handed out by the backend is still unreleased; a destruction releases
\* exactly the handles the object holds, none of them twice; after a move construction
\* the source holds no handle and its destruction releases nothing.
C21_ExclusiveOwnership ==
    /\ []((\A s \in Shaders : Held(sh[s]) = {}) => heap.live = {})
    /\ [][lastOp'.op = "reset" =>
             /\ Held(sh'[lastOp'.s]) = {}
             /\ heap'.live = heap.live \ Held(sh[lastOp'.s])
             /\ \A i \in 1..Len(lastOp'.calls) : ~lastOp'.calls[i].onNull]_vars
    /\ [][lastOp'.op = "move" =>
             LET src == lastOp'.arg[1]
             IN /\ Held(sh'[src]) = {}
                /\ Held(sh'[lastOp'.s]) = Held(sh[src])
                /\ VulkanShader_dtor([World(src) EXCEPT !.o = sh'[src]]).calls = <<>>]_vars

(***************************************************************************)
(* C22  Lookup by name.                                                    *)
(***************************************************************************)
\* The binary the backend produces for entry point e of shader o's program.
BinaryOf(o, e) ==
    CodeOf([src |-> e.src, name |-> e.name, opt |-> o.m_Optimize, macros |-> o.m_Macros])

\* C22: with caching enabled, after a compile() that recorded no failure and ended
\* COMPILED or CACHED, getSpirvFromName(n) returns, for every entry point n the modules
\* define, the binary the backend produces for the entry point named n.
C22_LookupByName ==
    \A s \in Shaders :
       (/\ Returned("compile", s)
        /\ sh[s].m_UseCache
        /\ sh[s].m_Result.status \in {COMPILED, CACHED}
        /\ sh[s].m_Result.error = "")
       => LET eps == DeclaredEntryPoints(sh[s].m_Modules, disk)
          IN \A i \in 1..Len(eps) :
                getSpirvFromName(World(s), eps[i].name, NoFault).ret = BinaryOf(sh[s], eps[i])

(***************************************************************************)
(* C23  One record per entry point.                                        *)
(***************************************************************************)
\* C23: whenever a compile() or getSpirv* call in which no backend operation failed has
\* replaced the file at the cache path, the file declares as many records as the linked
\* program has entry points and holds them one per entry point, in layout order, each
\* with the stage and the name of its entry point.
C23_OneRecordPerEntryPoint ==
    [][\A s \in Shaders :
          (/\ lastOp'.op \in {"compile", "getSpirvForStage", "getSpirvFromName"}
           /\ lastOp'.s = s /\ ~dead'
           /\ ~HasEvent(lastOp'.calls, BackendFailures)
           /\ sh'[s].m_UseCache
           /\ fs'[sh'[s].m_HashFile] # fs[sh'[s].m_HashFile]
           /\ ~IsNull(sh'[s].m_SlangProgram))
          => LET file == fs'[sh'[s].m_HashFile]
                 eps == sh'[s].m_SlangProgram.eps
                 recs == RecordsOf(file)
             IN /\ file.exists
                /\ ReadItem(file.data, 2, 0) = Len(eps)
                /\ Len(recs) = Len(eps)
                /\ \A i \in 1..Len(eps) :
                      /\ recs[i].stage = getVkStageFromSlangStage(eps[i].stage)
                      /\ recs[i].name = eps[i].name]_vars

(***************************************************************************)
(* C24  Save only after success.                                           *)
(***************************************************************************)
\* C24: a compile() call touches the temporary file and the cache path only when
\* caching is enabled, and a compile() in which a file could not be opened, a module or
\* an entry point failed to load, or the link failed leaves both files as they were and
\* makes no layout and no code-extraction call on the program.
C24_SaveOnlyAfterSuccess ==
    [][\A s \in Shaders :
          (lastOp'.op = "compile" /\ lastOp'.s = s)
          => /\ ~sh[s].m_UseCache => fs' = fs
             /\ HasEvent(lastOp'.calls, {"fail:open", "fail:load", "fail:entry", "fail:link"})
                => /\ fs' = fs
                   /\ ~HasEvent(lastOp'.calls, {"getLayout", "getEntryPointCode"})]_vars

(***************************************************************************)
(* C25  Extraction failure during the save.                                *)
(***************************************************************************)
\* C25: a compile() that linked its program and then, in the save, had the request for
\* an entry point's binary fail leaves the file at the cache path as it was and ends
\* with status COMPILED.
C25_ExtractionFailureInSave ==
    [][\A s \in Shaders :
          (/\ lastOp'.op = "compile" /\ lastOp'.s = s /\ ~dead'
           /\ HasEvent(lastOp'.calls, {"fail:code"})
           /\ ~HasEvent(lastOp'.calls, BackendFailures \ {"fail:code"}))
          => /\ fs'[CacheFile] = fs[CacheFile]
             /\ sh'[s].m_Result.status = COMPILED]_vars

(***************************************************************************)
(* C26  A failure is terminal only for its own compile attempt.            *)
(***************************************************************************)
\* C26: a compile() called in status FAILED that creates its session and in which no
\* backend operation fails (no file, module, entry point, link or extraction failure)
\* ends with status COMPILED.
C26_FailureNotSticky ==
    [][\A s \in Shaders :
          (/\ lastOp'.op = "compile" /\ lastOp'.s = s /\ ~dead'
           /\ sh[s].m_Result.status = FAILED
           /\ HasEvent(lastOp'.calls, {"createSession"})
           /\ ~HasEvent(lastOp'.calls, BackendFailures))
          => sh'[s].m_Result.status = COMPILED]_vars

(***************************************************************************)
(* C27  The search path precedes loading.                                  *)
(***************************************************************************)
\* The file modules of shader o that the call handed to the backend.
LoadedFileModules(o, calls) ==
    {i \in 1..Len(o.m_Modules) :
        /\ o.m_Modules[i].type = SourceType_FILE
        /\ \E k \in 1..Len(calls) : /\ calls[k].fn = "loadModuleFromSourceString"
                                    /\ calls[k].arg = o.m_Modules[i].name
                                    /\ ~calls[k].onNull}

\* C27: after a compile() call, the parent directory of every file module the call
\* loaded is among the search paths of the session the call created and loaded it with.
C27_SearchPathPrecedesLoading ==
    \A s \in Shaders :
       (Returned("compile", s) /\ ~IsNull(sh[s].m_SlangSession)
        /\ HasEvent(lastOp.calls, {"createSession"})
        /\ ~HasEvent(lastOp.calls, {"fail:session"}))
       => \A i \in LoadedFileModules(sh[s], lastOp.calls) :
             ParentPath(sh[s].m_Modules[i].data) # ""
             => ParentPath(sh[s].m_Modules[i].data) \in sh[s].m_SlangSession.paths

(***************************************************************************)
(* SpecWR: two threads, each with its own worker identity, call            *)
(* buildSession concurrently, up to MaxSteps times each.                   *)
(***************************************************************************)
NextWR ==
    \E t \in Workers :
       \/ CallBuildSession(t)
       \/ \E r \in RaceOutcomes : Contains(t, r)
       \/ CreateGlobalSession(t)
       \/ \E r \in RaceOutcomes : InsertBegin(t, r)
       \/ InsertEnd(t)
       \/ \E r \in RaceOutcomes, ub \in {"crash", "garbage"} : Lookup(t, r, ub)

SpecWR == Init /\ [][NextWR]_vars

(***************************************************************************)
(* C28  Worker registry.                                                   *)
(***************************************************************************)
\* C28: whenever no buildSession call is under way, the map holds, for exactly the
\* worker identities that made a session request, the one context created on that
\* identity's first request; an entry, once present, is never replaced or removed; and
\* a thread that has inserted its context finds it in the map.
C28_WorkerRegistry ==
    /\ []((~dead /\ \A t \in Workers : thr[t].pc \in {"idle", "done"})
          => /\ DOMAIN s_SlangSessions = {t \in Workers : thr[t].calls > 0}
             /\ \A t \in DOMAIN s_SlangSessions :
                   s_SlangSessions[t] = GlobalSession(t, 1) /\ thr[t].made = 1)
    /\ [][\A t \in DOMAIN s_SlangSessions :
             t \in DOMAIN s_SlangSessions' /\ s_SlangSessions'[t] = s_SlangSessions[t]]_vars
    /\ [](\A t \in Workers :
             (~dead /\ thr[t].pc = "lookup" /\ thr[t].made > 0)
             => t \in DOMAIN s_SlangSessions)

(***************************************************************************)
(* C29  Fingerprint combine order.                                         *)
(***************************************************************************)
\* SpecCO: builder P gets shader stages, the tessellation block through both of
\* its setters, counts that exceed their arrays, a dynamic-state list, and getHash.
NextCO ==
    \/ \E p_Shader \in {1, 2} : AddShaderStage("P", p_Shader, "main")
    \/ ResetShaderStages("P")
    \/ SetTessellationState("P", 3)
    \/ \E st \in TessellationStates : SetTessellationState_Struct("P", st)
    \/ SetViewportState_Counts("P", 2, 2)
    \/ \E d \in {<<0>>, <<0, 1>>} : SetDynamicState_Span("P", d)
    \/ \E p_Hash \in {"layout1", "layout2"}, env \in HashEnvs : GetHash("P", p_Hash, env)

SpecCO == Init /\ [][NextCO]_vars

\* The value one sub-hash function returns for builder o.
SubHash(o, name, env) ==
    CASE name = "vertexInput" -> getVertexInputHash(o, env.seeds[name], env.mem)
      [] name = "inputAssembly" -> getInputAssemblyHash(o, env.seeds[name])
      [] name = "tessellation" -> getTessellationHash(o, env.seeds[name])
      [] name = "viewport" -> getViewportStateHash(o, env.seeds[name], env.mem)
      [] name = "rasterization" -> getRasterizationHash(o, env.seeds[name])
      [] name = "multisample" -> getMultisampleHash(o, env.seeds[name])
      [] name = "depthStencil" -> getDepthStencilHash(o, env.seeds[name])
      [] name = "colorBlend" -> getColorBlendHash(o, env.seeds[name], env.mem)
      [] name = "dynamicState" -> getDynamicStateHash(o, env.seeds[name], env.mem)

\* The elements a getHash call is to combine, first to last, when the tessellation
\* sub-hash is among them exactly if `tessellation` holds.
CombinedElements(o, p_Hash, env, tessellation) ==
    LET stages == [i \in 1..Len(o.m_ShaderStages) |->
                      <<ToString(ShaderModuleStage(o.m_ShaderStages[i].shader)),
                        o.m_ShaderStages[i].entrypoint>>]
        blocks == <<"vertexInput", "inputAssembly">>
                  \o (IF tessellation THEN <<"tessellation">> ELSE <<>>)
                  \o <<"viewport", "rasterization", "multisample", "depthStencil",
                       "colorBlend", "dynamicState">>
    IN <<p_Hash>> \o Concat(stages)
       \o [i \in 1..Len(blocks) |-> Render(SubHash(o, blocks[i], env))]

\* The left fold of hashCombine from seed 0.
RECURSIVE Fold(_, _)
Fold(seed, elements) ==
    IF elements = <<>> THEN seed ELSE Fold(hashCombine(seed, Head(elements)), Tail(elements))

CombineOrderHolds ==
    \A b \in Builders :
       /\ \A p_Hash \in {"layout1", "layout2"}, env \in HashEnvs :
             LET r == VulkanPipelineBuilder_getHash(pb[b], p_Hash, env)
             IN ~r.died
                => r.value = Fold(ZeroHash,
                                  CombinedElements(pb[b], p_Hash, env,
                                                   pb[b].m_TesellationStateEnabled))
       /\ (pbOp.op = "getHash" /\ pbOp.b = b /\ ~pbOp.died)
          => \E env \in HashEnvs :
                pbOp.ret = Fold(ZeroHash,
                                CombinedElements(pb[b], pbOp.arg, env,
                                                 pb[b].m_TesellationStateEnabled))

\* The tessellation block is enabled from the first setTessellationState call on.
TessellationExplicit ==
    \A b \in Builders :
       ~dead'
       => (pb'[b].m_TesellationStateEnabled
           <=> (\/ pb[b].m_TesellationStateEnabled
                \/ (pbOp'.op = "setTessellationState" /\ pbOp'.b = b)))

\* C29: whatever getHash returns is the fold, from 0, of the layout fingerprint, then
\* the stage identifier and entry-point name of each shader stage in the order added,
\* then the sub-hashes of vertex-input, input-assembly, tessellation, viewport,
\* rasterization, multisample, depth/stencil, color-blend and dynamic-state; the
\* tessellation sub-hash is among them exactly when setTessellationState was called on
\* the builder.
C29_CombineOrder ==
    /\ ~pb["P"].m_TesellationStateEnabled
    /\ []CombineOrderHolds
    /\ [][TessellationExplicit]_vars

\* getHash has returned on a builder with a shader stage and tessellation set.
C29_Witness ==
    /\ pbOp.op = "getHash" /\ ~pbOp.died
    /\ pb[pbOp.b].m_ShaderStages # <<>>
    /\ pb[pbOp.b].m_TesellationStateEnabled

(***************************************************************************)
(* C30  The content fingerprint is an ordered fold.                        *)
(***************************************************************************)
\* SpecSH: one ShaderHash is given strings, macros, a file and a file that does not
\* exist, and is asked for its hash, in any order.
NextSH ==
    \/ \E p_Content \in {"a", "b"} : ShaderHash_addString(p_Content)
    \/ \E p_Value \in {"1", "2"} : ShaderHash_addMacro("N", p_Value)
    \/ \E p_File \in {SourceFile, "shaders/missing.slang"} : ShaderHash_addFile(p_File)
    \/ ShaderHash_getHash

SpecSH == Init /\ [][NextSH]_vars

\* The other orders of a list of distinct strings.
Reorderings(data) ==
    IF \E i, j \in DOMAIN data : i # j /\ data[i] = data[j] THEN {}
    ELSE {p \in [DOMAIN data -> {data[i] : i \in DOMAIN data}] :
             /\ \A i, j \in DOMAIN data : i # j => p[i] # p[j]
             /\ p # data}

\* The hash of a ShaderHash that was given the strings of data, in that order, and asked
\* once.
HashOf(data) == getHash([NewShaderHash EXCEPT !.m_Data = data]).m_HashValue

\* C30: getHash returns the left fold of hashCombine from 0 over the strings added so
\* far, in the order added, where addString adds its argument and addMacro adds
\* name + "=" + value; the same distinct strings added in another order hash differently.
C30_OrderedFold ==
    /\ [](shaderHashOp.op = "getHash"
          => shaderHashOp.ret = Fold(ZeroHash, shaderHash.m_Data))
    /\ [](\A p \in Reorderings(shaderHash.m_Data) : HashOf(p) # HashOf(shaderHash.m_Data))
    /\ [][/\ shaderHashOp'.op = "addString"
             => shaderHash'.m_Data = Append(shaderHash.m_Data, shaderHashOp'.arg[1])
          /\ shaderHashOp'.op = "addMacro"
             => shaderHash'.m_Data = Append(shaderHash.m_Data,
                                            shaderHashOp'.arg[1] \o "=" \o shaderHashOp'.arg[2])
         ]_vars

(***************************************************************************)
(* C31  An unreadable file leaves the state unchanged.                     *)
(***************************************************************************)
\* C31: an addModule call that throws because ShaderHash::addFile could not open the
\* file leaves both the content hash and the module list of the shader as they were
\* before the call.
C31_UnreadableFileLeavesState ==
    [][(lastOp'.op = "addModule" /\ lastOp'.threw)
       => /\ sh'[lastOp'.s].m_Hash = sh[lastOp'.s].m_Hash
          /\ sh'[lastOp'.s].m_Modules = sh[lastOp'.s].m_Modules]_vars

(***************************************************************************)
(* C32  Memo coherence.                                                    *)
(***************************************************************************)
\* C32: whatever additions and getHash calls came before, getHash returns the hash of
\* everything added so far, that is the hash an object that was given the same strings
\* and never asked before returns; so a getHash that follows a successful addition
\* differs from every result that preceded the addition.
C32_MemoCoherence ==
    /\ [](shaderHashOp.op = "getHash"
          => shaderHashOp.ret = HashOf(shaderHash.m_Data))
    /\ [][(/\ shaderHashOp'.op = "getHash"
           /\ shaderHashOp.op \in {"addString", "addMacro", "addFile"}
           /\ shaderHashOp.ret = ZeroHash)
          => shaderHashOp'.ret # shaderHash.m_HashValue]_vars

(***************************************************************************)
(* C33  No use of an absent program.                                       *)
(***************************************************************************)
\* C33: a shader whose status is COMPILED holds a linked program, and no call of the
\* last operation to getLayout or getEntryPointCode was made through a null program.
C33_NoUseOfAbsentProgram ==
    /\ \A s \in Shaders :
          sh[s].m_Result.status = COMPILED => ~IsNull(sh[s].m_SlangProgram)
    /\ \A i \in 1..Len(lastOp.calls) :
          lastOp.calls[i].fn \in {"getLayout", "getEntryPointCode"}
          => ~lastOp.calls[i].onNull

(***************************************************************************)
(* C34  The cache key covers every module.                                 *)
(***************************************************************************)
\* What the modules of a list contribute to the content hash, in list order.
RECURSIVE ModulesHashed(_, _)
ModulesHashed(h, mods) ==
    IF mods = <<>> THEN h
    ELSE ModulesHashed(ModuleHashed(h, ModuleSource(Head(mods), disk),
                                    IF Head(mods).type = SourceType_FILE THEN "file" ELSE "str",
                                    Head(mods).name),
                       Tail(mods))

\* compile() has run on shader s with the cache enabled.
CompiledWithCache(s) == opCount[s] > 0 /\ sh[s].m_UseCache

\* C34: the content hash a compile() used for the cache is the hash of every module of
\* the module list, and two shaders that compiled against the same cache path with
\* different module lists used different content hashes.
C34_KeyCoversEveryModule ==
    /\ \A s \in Shaders :
          CompiledWithCache(s)
          => getHash(sh[s].m_Hash).m_HashValue
             = getHash(ModulesHashed(NewShaderHash, sh[s].m_Modules)).m_HashValue
    /\ (/\ CompiledWithCache("A") /\ CompiledWithCache("B")
        /\ sh["A"].m_HashFile = sh["B"].m_HashFile
        /\ sh["A"].m_Modules # sh["B"].m_Modules)
       => getHash(sh["A"].m_Hash).m_HashValue # getHash(sh["B"].m_Hash).m_HashValue

(***************************************************************************)
(* C35  Move construction preserves the program.                           *)
(***************************************************************************)
\* What the status of a shader relies on.
CarriedMembers ==
    {"m_Modules", "m_Macros", "m_Optimize", "m_CompilationThread", "m_HashFile",
     "m_UseCache", "m_Hash", "m_ExpectedStages", "m_ExpectedEntryPoints", "m_CachedCodes",
     "m_SlangSession", "m_SlangProgram", "m_Result"}

\* What a caller sees of a call: the value returned and the status left.
Outcome(w) == [ret |-> w.ret, status |-> w.o.m_Result.status, dead |-> w.dead]

\* C35: after a move construction the destination has the source's status and every
\* member that status relies on, and getSpirvForStage, getSpirvFromName and compile on
\* the destination return what they would have returned on the source before the move.
C35_MovePreservesProgram ==
    [][lastOp'.op = "move" =>
          LET src == lastOp'.arg[1]
              dst == lastOp'.s
              wSrc == World(src)
              wDst == [World(src) EXCEPT !.o = sh'[dst]]
          IN /\ \A m \in CarriedMembers : sh'[dst][m] = sh[src][m]
             /\ \A g \in {VK_SHADER_STAGE_VERTEX_BIT, VK_SHADER_STAGE_FRAGMENT_BIT} :
                   Outcome(getSpirvForStage(wDst, g, NoFault))
                   = Outcome(getSpirvForStage(wSrc, g, NoFault))
             /\ \A n \in {"vsMain", "fsA"} :
                   Outcome(getSpirvFromName(wDst, n, NoFault))
                   = Outcome(getSpirvFromName(wSrc, n, NoFault))
             /\ \A f \in BOOLEAN :
                   Outcome(compile(wDst, f, NoFault)) = Outcome(compile(wSrc, f, NoFault))]_vars

(***************************************************************************)
(* C36  Array reads stay in bounds.                                        *)
(***************************************************************************)
\* C36: whatever the constructor and the setters did before, a getHash call reads each
\* array of bindings, attributes, viewports, scissors, blend attachments and dynamic
\* states through a pointer that is not null and up to a count the array has.
C36_ArrayReadsInBounds ==
    [][pbOp'.op = "getHash" => ~OutOfBounds(pb[pbOp'.b])]_vars

(***************************************************************************)
(* C37  The shader identity is part of the key.                            *)
(***************************************************************************)
\* The shader modules the device holds: 1 is a vertex shader, 2 and 3 are two fragment
\* shaders compiled from different code.
ShaderModules == {1, 2, 3}

\* C37: a builder with arrays as long as their counts, and the same builder with one
\* shader stage referring to another shader module, entry-point name and everything
\* else being equal, have different fingerprints.
C37_ShaderIdentityInKey ==
    \A b \in Builders :
       ~OutOfBounds(pb[b])
       => \A i \in 1..Len(pb[b].m_ShaderStages) :
             \A other \in ShaderModules \ {pb[b].m_ShaderStages[i].shader} :
                Fingerprint([pb[b] EXCEPT !.m_ShaderStages[i].shader = other])
                # Fingerprint(pb[b])

(***************************************************************************)
(* C38  The fallback compile of a code query is bounded.                   *)
(***************************************************************************)
\* How many times a call went through compile() past the cache test: every such pass
\* enters buildSession, which either fails to create the global session or goes on
\* to create the session.
CompilePasses(calls) ==
    Cardinality({i \in 1..Len(calls) :
                    \/ calls[i].fn = "createSession"
                    \/ /\ calls[i].fn = "fail:session"
                       /\ calls[i].arg = "Failed to create Slang global session"})

\* The call died inside the query itself, past the fallback compile.
DiedInQuery(calls) ==
    \E i \in 1..Len(calls) :
       calls[i].fn = "died" /\ calls[i].arg \in {"getSpirvForStage", "getSpirvFromName"}

\* C38: a getSpirvForStage or getSpirvFromName call passes through compile at most
\* once, and a call that fell back to compile ends by returning code or a failure: it
\* does not die in the query.
C38_BoundedFallback ==
    lastOp.op \in {"getSpirvForStage", "getSpirvFromName"}
    => /\ CompilePasses(lastOp.calls) <= 1
       /\ CompilePasses(lastOp.calls) = 1 => ~DiedInQuery(lastOp.calls)

(***************************************************************************)
(* SpecSV: two threads, each with a compiled VulkanShader of its own and   *)
(* the same m_HashFile, run saveCodeCache at the same time, up to MaxSteps *)
(* times each.  A stream reaches the file system at three points: after    *)
(* the header, after the count and at close().                             *)
(***************************************************************************)
\* The module of the shader that worker t compiles.
SaverSource(t) == IF t = 1 THEN "vs" ELSE "fs2"

\* The shader of worker t, configured and not yet compiled.
SaverShader(t) ==
    [NewShader(t, FALSE, MacroD1) EXCEPT
        !.m_UseCache = TRUE,
        !.m_HashFile = CacheFile,
        !.m_Modules = <<[data |-> SaverSource(t), type |-> SourceType_STRING, name |-> "m1"]>>,
        !.m_Hash = ModuleHashed(@, SaverSource(t), "str", "m1")]

\* Everything the saveCodeCache of worker t writes, as it runs alone in compile().
SaverOutput(t) ==
    compile([o |-> SaverShader(t), sessions |-> NoSessions,
             fs |-> [p \in FsPaths |-> NoFile], disk |-> [p \in {SourceFile} |-> "vs"],
             heap |-> EmptyHeap, calls |-> <<>>, ret |-> <<>>, hit |-> FALSE,
             dead |-> FALSE],
            FALSE, NoFault).fs[CacheFile].data

\* A place of a file holds an item that was written, or zero bytes where nothing was
\* written below a later write.
ZeroFill == [zero |-> TRUE]

Stored(out) == [i \in 1..Len(out) |-> [item |-> out[i]]]

\* write(): the items of out from position from + 1 to position to, over data.
Overwritten(data, out, from, to) ==
    [i \in 1..(IF Len(data) > to THEN Len(data) ELSE to) |->
        IF i > from /\ i <= to THEN [item |-> out[i]]
        ELSE IF i <= Len(data) THEN data[i] ELSE ZeroFill]

SaveStep(t, nextSaves) ==
    /\ ~dead
    /\ saves' = nextSaves
    /\ UNCHANGED <<sh, s_SlangSessions, fs, disk, lastOp, opCount, dead, pb, pbOp,
                   pbCount, heap, thr, shaderHash, shaderHashOp>>

\* std::ofstream l_File{ l_TempFile, std::ios::binary }: the file the temporary path
\* names is emptied, or a new one is made.
SaveOpen(t) ==
    LET l_TempFile == TempFileOf(CacheFile)
        present == saves.path[l_TempFile] # NoObject
        file == IF present THEN saves.path[l_TempFile] ELSE Len(saves.files) + 1
    IN /\ saves.th[t].pc \in {"idle", "done"}
       /\ saves.th[t].calls < MaxSteps
       /\ SaveStep(t, [saves EXCEPT
                          !.files = IF present THEN [@ EXCEPT ![file] = <<>>]
                                    ELSE Append(@, <<>>),
                          !.path[l_TempFile] = file,
                          !.th[t] = [pc |-> "header", calls |-> @.calls + 1, file |-> file,
                                     pos |-> 0, threw |-> @.threw]])

\* The next part of the output reaches the file of the stream.
SaveWrite(t) ==
    LET me == saves.th[t]
        out == SaverOutput(t)
        to == IF me.pc = "header" THEN 1 ELSE IF me.pc = "count" THEN 2 ELSE Len(out)
    IN /\ me.pc \in {"header", "count", "records"}
       /\ SaveStep(t, [saves EXCEPT
                          !.files[me.file] = Overwritten(@, out, me.pos, to),
                          !.th[t].pos = to,
                          !.th[t].pc = IF me.pc = "header" THEN "count"
                                       ELSE IF me.pc = "count" THEN "records"
                                       ELSE "rename"])

\* std::filesystem::rename(l_TempFile, m_HashFile): throws when the temporary path
\* names no file.
SaveRename(t) ==
    LET l_TempFile == TempFileOf(CacheFile)
    IN /\ saves.th[t].pc = "rename"
       /\ SaveStep(t, IF saves.path[l_TempFile] = NoObject
                      THEN [saves EXCEPT !.th[t].pc = "done", !.th[t].threw = TRUE]
                      ELSE [saves EXCEPT !.path[CacheFile] = saves.path[l_TempFile],
                                         !.path[l_TempFile] = NoObject,
                                         !.th[t].pc = "done"])

NextSV ==
    \E t \in Workers :
       \/ SaveOpen(t)
       \/ SaveWrite(t)
       \/ SaveRename(t)

SpecSV == Init /\ [][NextSV]_vars

(***************************************************************************)
(* C39  Concurrent saves to one cache path.                                *)
(***************************************************************************)
\* C39: while two threads save to the same cache path, a file at the cache path holds
\* the whole output of one of the two saves and nothing else, and no save ends in an
\* exception.
C39_ConcurrentSaves ==
    /\ saves.path[CacheFile] # NoObject
       => \E t \in Workers : saves.files[saves.path[CacheFile]] = Stored(SaverOutput(t))
    /\ \A t \in Workers : ~saves.th[t].threw

====
